---- MODULE Spec2Model ----
(***************************************************************************)
(* Match manager and player sessions of the paintball mini-game.           *)
(*                                                                         *)
(* The server is single threaded: every host event, timer callback and    *)
(* continuation of an await runs to completion, so each of them is one     *)
(* action.  A handler is written as an operator from a state record to a   *)
(* state record, so that the calls it makes compose as in the code.        *)
(***************************************************************************)
EXTENDS Integers, Sequences, FiniteSets, TLC

\* ------------------------------------------------------------- bounds
NumPlayers == 2
MaxKills == 2
MaxExp == 3
MaxWound == 1
MaxPendingGuns == 1
MaxTime == 1
MaxAmmo == 2
MaxClock == 240
MaxProjectiles == 2
MaxDistance == 90
MaxCoord == 1
MaxHeight == 0

\* -------------------------------------------------- program constants
MINIMUM_PLAYERS_TO_START == 2
RANK_KILL_EXP == 1
RANK_WIN_EXP == 2
RANK_SAVE_INTERVAL_EXP == 5
GAME_DURATION_MS == 3
COUNTDOWN_SECONDS == 10
BASE_HEALTH == 100
BASE_SHIELD == 0
MAX_HEALTH == 100
MAX_SHIELD == 100
TOTAL_INVENTORY_SLOTS == 6
RANKS == <<0, 2, 5>>
FIRE_RATE == 15
FULL_DAMAGE_RANGE == 15
MIN_DAMAGE_RANGE == 40
\* MIN_DAMAGE_MULTIPLIER = 0.2, as the fraction 1 / 5.
MIN_DAMAGE_MULTIPLIER_NUM == 1
MIN_DAMAGE_MULTIPLIER_DEN == 5
PROJECTILE_LIFETIME_MS == 3000
BEDROCK_BLOCK_ID == 1

Players == 1..NumPlayers
\* The values Date.now() takes when a match starts.
Times == 1..MaxTime
\* The username '' that _identifyWinningPlayer starts from, and "no attacker".
NoPlayer == 0
\* Damage amounts handed to takeDamage; MAX_HEALTH + MAX_SHIELD is what the
\* out-of-world check uses.
DamageAmounts == {0, MAX_HEALTH + MAX_SHIELD}

Min(a, b) == IF a < b THEN a ELSE b
Max(a, b) == IF a > b THEN a ELSE b

VARIABLES
  gameActive,           \* GameManager._gameActive
  isWaitingForPlayers,  \* GameManager._isWaitingForPlayers
  isCountingDown,       \* GameManager._isCountingDown
  countdownSeconds,     \* GameManager._countdownSeconds
  playerCount,          \* GameManager._playerCount
  gameStartAt,          \* GameManager._gameStartAt
  killCounter,          \* GameManager._killCounter, in insertion order
  countdownTimer,       \* what the field _countdownTimer refers to
  countdownIntervals,   \* countdown intervals pending in the event loop
  gameTimer,            \* what the field _gameTimer refers to
  gameTimers,           \* match-end timeouts pending in the event loop
  restartTimer,         \* what the field _restartTimer refers to
  restartTimers,        \* restart timeouts pending in the event loop
  pollTimers,           \* 1 s re-check timeouts of _waitForPlayersToStart pending
  connected,            \* the host's connected players of the world
  joinPc,               \* where each player's handlePlayerJoined is suspended
  health,               \* GamePlayerEntity._health of each player's entity
  shield,               \* GamePlayerEntity._shield
  dead,                 \* GamePlayerEntity._dead
  totalExp,             \* GamePlayerEntity._totalExp
  lastExpSave,          \* GamePlayerEntity._lastExpSave
  persisted,            \* the host's persisted record of each player
  respawnTimers,        \* respawn timeouts pending for each player's entity
  inventory,            \* GamePlayerEntity._inventory: index i is at position i + 1
  activeSlot,           \* GamePlayerEntity._inventoryActiveSlotIndex
  pendingGuns,          \* _giveStartingGun calls awaiting ItemFactory.createItem
  ranks,                \* gameConfig.RANKS: the totalExp threshold of each rank
  rankIndex,            \* GamePlayerEntity._rankIndex
  gun,                  \* a CustomGunEntity: its fields and pending reload timeouts
  clock,                \* the server's clock (performance.now(), Date.now()), in ms
  projectile,           \* a PaintballProjectileEntity: its fields and lifetime timeout
  blocks,               \* world.chunkLattice: the block type id at each coordinate
  departed,             \* the entity each player's LEFT_WORLD despawned last
  gameTimerDue,         \* the time the match-end timeout set last is due, in ms
  position,             \* where each player's avatar is: on the map, in the spawn region, below y = -100
  ui                    \* the messages the last step sent, in order

vars == <<gameActive, isWaitingForPlayers, isCountingDown, countdownSeconds,
          playerCount, gameStartAt, killCounter, countdownTimer, countdownIntervals,
          gameTimer, gameTimers, restartTimer, restartTimers, pollTimers,
          connected, joinPc, health, shield, dead, totalExp, lastExpSave,
          persisted, respawnTimers, inventory, activeSlot, pendingGuns,
          ranks, rankIndex, gun, clock, projectile, blocks, departed,
          gameTimerDue, position, ui>>

\* What the match and the sessions in the world do not write: the items in
\* the world and the entities that were despawned.
itemVars == <<gun, clock, projectile, blocks, departed, gameTimerDue, position>>

\* The current state of the match and of the sessions' combat fields as a
\* record; the outbox starts empty in every step.  The inventory fields have
\* a record of their own (InvCur).
Cur ==
  [gameActive |-> gameActive, isWaitingForPlayers |-> isWaitingForPlayers,
   isCountingDown |-> isCountingDown, countdownSeconds |-> countdownSeconds,
   playerCount |-> playerCount, gameStartAt |-> gameStartAt,
   killCounter |-> killCounter,
   countdownTimer |-> countdownTimer, countdownIntervals |-> countdownIntervals,
   gameTimer |-> gameTimer, gameTimers |-> gameTimers,
   restartTimer |-> restartTimer, restartTimers |-> restartTimers,
   pollTimers |-> pollTimers, connected |-> connected, joinPc |-> joinPc,
   health |-> health, shield |-> shield, dead |-> dead, totalExp |-> totalExp,
   lastExpSave |-> lastExpSave, persisted |-> persisted,
   respawnTimers |-> respawnTimers, ranks |-> ranks, rankIndex |-> rankIndex,
   ui |-> <<>>]

\* The match and session fields and the outbox take the values of s.
SessionCommit(s) ==
  /\ gameActive' = s.gameActive
  /\ isWaitingForPlayers' = s.isWaitingForPlayers
  /\ isCountingDown' = s.isCountingDown
  /\ countdownSeconds' = s.countdownSeconds
  /\ playerCount' = s.playerCount
  /\ gameStartAt' = s.gameStartAt
  /\ killCounter' = s.killCounter
  /\ countdownTimer' = s.countdownTimer
  /\ countdownIntervals' = s.countdownIntervals
  /\ gameTimer' = s.gameTimer
  /\ gameTimers' = s.gameTimers
  /\ restartTimer' = s.restartTimer
  /\ restartTimers' = s.restartTimers
  /\ pollTimers' = s.pollTimers
  /\ connected' = s.connected
  /\ joinPc' = s.joinPc
  /\ health' = s.health
  /\ shield' = s.shield
  /\ dead' = s.dead
  /\ totalExp' = s.totalExp
  /\ lastExpSave' = s.lastExpSave
  /\ persisted' = s.persisted
  /\ respawnTimers' = s.respawnTimers
  /\ ranks' = s.ranks
  /\ rankIndex' = s.rankIndex
  /\ ui' = s.ui
  /\ UNCHANGED <<inventory, activeSlot, pendingGuns>>

\* The step of a match or session handler: s is evaluated once, the items
\* stay as they are.
Commit(s) == \E v \in {s} : SessionCommit(v) /\ UNCHANGED itemVars

\* ------------------------------------------------------------ messages
\* player.ui.sendData / chatManager.send*: one record per message, "to" the
\* set of players it goes to.
Send(s, m) == [s EXCEPT !.ui = Append(@, m)]

Sent(type) == {i \in DOMAIN ui : ui[i].type = type}

\* Object.fromEntries(_killCounter): the counter as the client receives it.
GetKillCounts(s) == s.killCounter

KillCountOf(kc, u) ==
  IF \E i \in DOMAIN kc : kc[i][1] = u
    THEN kc[CHOOSE i \in DOMAIN kc : kc[i][1] = u][2]
    ELSE 0

\* The client's player counter is refreshed; the message carries no state
\* the manager reads back and is left out of the outbox.
UpdatePlayerCountUI(s) == s

SendCountdownUpdateToAll(s, seconds, show) ==
  Send(s, [type |-> "countdown-update", to |-> s.connected,
           seconds |-> seconds, show |-> show])

\* syncTimer sending the duration as the end time.
SyncTimer_DurationOnly(s, to) ==
  IF s.gameStartAt = 0
    THEN s
    ELSE Send(s, [type |-> "timer-sync", to |-> to, startedAt |-> s.gameStartAt,
                  endsAt |-> GAME_DURATION_MS])

SyncTimer(s, to) ==
  IF s.gameStartAt = 0
    THEN s
    ELSE Send(s, [type |-> "timer-sync", to |-> to, startedAt |-> s.gameStartAt,
                  endsAt |-> s.gameStartAt + GAME_DURATION_MS])

SyncLeaderboard(s, to) ==
  Send(s, [type |-> "leaderboard-sync", to |-> to, killCounts |-> GetKillCounts(s)])

SendGameStartAnnouncements(s, to) ==
  Send(s, [type |-> "game-start-announcement", to |-> to])

\* ------------------------------------------------------------- timers
\* clearTimeout / clearInterval of what a field refers to: a pending timer
\* leaves the event loop, anything else is left as it is.
ClearCountdownTimer(s) ==
  IF s.countdownTimer = "pending"
    THEN [s EXCEPT !.countdownTimer = "dead", !.countdownIntervals = @ - 1]
    ELSE s

ClearRestartTimer(s) ==
  IF s.restartTimer = "pending"
    THEN [s EXCEPT !.restartTimer = "dead", !.restartTimers = @ - 1]
    ELSE s

\* ------------------------------------------------- experience and kills
\* The loop of _totalExpToRankIndex from index i on: rank i when totalExp is
\* at or above its threshold and below the next one.
RECURSIVE RankScan(_, _, _)
RankScan(R, exp, i) ==
  IF i >= Len(R) - 1
    THEN IF exp >= R[Len(R)] THEN Len(R) - 1 ELSE 0
    ELSE IF exp >= R[i + 1] /\ exp < R[i + 2] THEN i ELSE RankScan(R, exp, i + 1)

\* _totalExpToRankIndex with > in place of >=.
TotalExpToRankIndex_Above(R, exp) ==
  LET above == {i \in 0..(Len(R) - 1) : exp > R[i + 1]}
  IN IF above = {} THEN 0 ELSE CHOOSE i \in above : \A j \in above : j <= i

\* GamePlayerEntity._totalExpToRankIndex over the thresholds R (rank i at R[i + 1]).
TotalExpToRankIndex(R, exp) == RankScan(R, exp, 0)

\* _updatePlayerUIExp: the rank index follows the total experience.
UpdatePlayerUIExp(s, p) ==
  [s EXCEPT !.rankIndex[p] = TotalExpToRankIndex(s.ranks, s.totalExp[p])]

\* GamePlayerEntity.savePersistedData: the record { totalExp } goes to the
\* host's storage; the call is kept in the outbox.
SavePersistedData(s, p) ==
  Send([s EXCEPT !.persisted[p] = <<s.totalExp[p]>>],
       [type |-> "set-persisted-data", to |-> {p}, totalExp |-> s.totalExp[p]])

\* addExp that saves on every call.
AddExp_SaveAlways(s, p, exp) ==
  LET s2 == UpdatePlayerUIExp([s EXCEPT !.totalExp[p] = @ + exp], p)
  IN [SavePersistedData(s2, p) EXCEPT !.lastExpSave[p] = s2.totalExp[p]]

\* GamePlayerEntity.addExp, with _updatePlayerUIExp and savePersistedData.
AddExp(s, p, exp) ==
  LET s2 == UpdatePlayerUIExp([s EXCEPT !.totalExp[p] = @ + exp], p)
  IN IF s2.totalExp[p] - s2.lastExpSave[p] >= RANK_SAVE_INTERVAL_EXP
       THEN [SavePersistedData(s2, p) EXCEPT !.lastExpSave[p] = s2.totalExp[p]]
       ELSE s2

UpdateLeaderboardUI(s, username, killCount) ==
  Send(s, [type |-> "leaderboard-update", to |-> s.connected,
           username |-> username, killCount |-> killCount])

\* Map.set: an identity already in the map keeps its place, a new one goes last.
MapSet(kc, u, n) ==
  IF \E i \in DOMAIN kc : kc[i][1] = u
    THEN [i \in DOMAIN kc |-> IF kc[i][1] = u THEN <<u, n>> ELSE kc[i]]
    ELSE Append(kc, <<u, n>>)

\* addKill sending the count it read, not the count it stored.
AddKill_OldCount(s, playerUsername) ==
  LET killCount == KillCountOf(s.killCounter, playerUsername)
      newKillCount == killCount + 1
      s1 == [s EXCEPT !.killCounter = MapSet(@, playerUsername, newKillCount)]
  IN UpdateLeaderboardUI(s1, playerUsername, killCount)

AddKill(s, playerUsername) ==
  LET killCount == KillCountOf(s.killCounter, playerUsername)
      newKillCount == killCount + 1
      s1 == [s EXCEPT !.killCounter = MapSet(@, playerUsername, newKillCount)]
  IN UpdateLeaderboardUI(s1, playerUsername, newKillCount)

\* The forEach of _identifyWinningPlayer: the first identity, in iteration
\* order, whose count is strictly above every earlier one.
RECURSIVE WinnerScan(_, _, _, _)
WinnerScan(kc, i, highestKills, winningPlayer) ==
  IF i > Len(kc)
    THEN winningPlayer
    ELSE IF kc[i][2] > highestKills
           THEN WinnerScan(kc, i + 1, kc[i][2], kc[i][1])
           ELSE WinnerScan(kc, i + 1, highestKills, winningPlayer)

\* The scan with `>=`: the last identity with the highest count.
WinningPlayer_LastMax(kc) ==
  IF kc = <<>>
    THEN NoPlayer
    ELSE kc[CHOOSE i \in DOMAIN kc :
              /\ \A j \in DOMAIN kc : kc[j][2] <= kc[i][2]
              /\ \A j \in DOMAIN kc : j > i => kc[j][2] < kc[i][2]][1]

WinningPlayer(kc) == WinnerScan(kc, 1, 0, NoPlayer)

\* Every connected player has a spawned GamePlayerEntity (spawned in the
\* JOINED_WORLD step, despawned in the LEFT_WORLD step).
IdentifyWinningPlayer(s) ==
  LET winningPlayer == WinningPlayer(s.killCounter)
  IN IF winningPlayer \notin s.connected
       THEN s
       ELSE Send(AddExp(s, winningPlayer, RANK_WIN_EXP),
                 [type |-> "announce-winner", to |-> s.connected,
                  username |-> winningPlayer])

\* ------------------------------------------------------- match manager
\* _startCountdown without the clearTimeout of the running interval.
StartCountdown_NoClear(s) ==
  LET s2 == [s EXCEPT !.isCountingDown = TRUE,
                      !.countdownSeconds = COUNTDOWN_SECONDS]
      s3 == SendCountdownUpdateToAll(s2, s2.countdownSeconds, TRUE)
  IN [s3 EXCEPT !.countdownTimer = "pending", !.countdownIntervals = @ + 1]

StartCountdown(s) ==
  LET s1 == IF s.isCountingDown THEN ClearCountdownTimer(s) ELSE s
      s2 == [s1 EXCEPT !.isCountingDown = TRUE,
                       !.countdownSeconds = COUNTDOWN_SECONDS]
      s3 == SendCountdownUpdateToAll(s2, s2.countdownSeconds, TRUE)
  IN [s3 EXCEPT !.countdownTimer = "pending", !.countdownIntervals = @ + 1]

\* _waitForPlayersToStart leaving _isWaitingForPlayers set when it starts the
\* countdown.
WaitForPlayersToStart_StillWaiting(s) ==
  IF ~s.isWaitingForPlayers \/ s.isCountingDown \/ s.gameActive
    THEN [s EXCEPT !.isWaitingForPlayers = FALSE]
    ELSE IF Cardinality(s.connected) >= MINIMUM_PLAYERS_TO_START
           THEN StartCountdown(s)
           ELSE [s EXCEPT !.pollTimers = @ + 1]

\* _waitForPlayersToStart starting the countdown one player short.
WaitForPlayersToStart_OneShort(s) ==
  IF ~s.isWaitingForPlayers \/ s.isCountingDown \/ s.gameActive
    THEN [s EXCEPT !.isWaitingForPlayers = FALSE]
    ELSE IF Cardinality(s.connected) >= MINIMUM_PLAYERS_TO_START - 1
           THEN StartCountdown([s EXCEPT !.isWaitingForPlayers = FALSE])
           ELSE [s EXCEPT !.pollTimers = @ + 1]

WaitForPlayersToStart(s) ==
  IF ~s.isWaitingForPlayers \/ s.isCountingDown \/ s.gameActive
    THEN [s EXCEPT !.isWaitingForPlayers = FALSE]
    ELSE IF Cardinality(s.connected) >= MINIMUM_PLAYERS_TO_START
           THEN StartCountdown([s EXCEPT !.isWaitingForPlayers = FALSE])
           ELSE [s EXCEPT !.pollTimers = @ + 1]

SyncAllPlayersUI(s) == SyncLeaderboard(SyncTimer(s, s.connected), s.connected)

\* startGame without `this._killCounter.clear()`.
StartGame_KeepCounter(s, now) ==
  IF s.gameActive
    THEN s
    ELSE
      LET s1 == [s EXCEPT !.isCountingDown = FALSE, !.isWaitingForPlayers = FALSE]
          s2 == ClearCountdownTimer(s1)
          s3 == SendCountdownUpdateToAll(s2, 0, FALSE)
          s4 == [s3 EXCEPT !.gameActive = TRUE,
                           !.gameStartAt = now,
                           !.gameTimer = "pending", !.gameTimers = @ + 1]
          s5 == SyncAllPlayersUI(s4)
          s6 == UpdatePlayerCountUI(s5)
      IN SendGameStartAnnouncements(s6, s6.connected)

StartGame(s, now) ==
  IF s.gameActive
    THEN s
    ELSE
      LET s1 == [s EXCEPT !.isCountingDown = FALSE, !.isWaitingForPlayers = FALSE]
          s2 == ClearCountdownTimer(s1)
          s3 == SendCountdownUpdateToAll(s2, 0, FALSE)
          s4 == [s3 EXCEPT !.killCounter = <<>>, !.gameActive = TRUE,
                           !.gameStartAt = now,
                           !.gameTimer = "pending", !.gameTimers = @ + 1]
          s5 == SyncAllPlayersUI(s4)
          s6 == UpdatePlayerCountUI(s5)
      IN SendGameStartAnnouncements(s6, s6.connected)

\* endGame without the restart timeout.
EndGame_NoRestart(s) ==
  IF ~s.gameActive
    THEN s
    ELSE
      LET s1 == [s EXCEPT !.gameActive = FALSE]
          s2 == IdentifyWinningPlayer(s1)
          s3 == ClearRestartTimer(s2)
          s4 == [s3 EXCEPT !.isWaitingForPlayers = TRUE, !.isCountingDown = FALSE,
                           !.playerCount = Cardinality(s3.connected)]
      IN UpdatePlayerCountUI(s4)

EndGame(s) ==
  IF ~s.gameActive
    THEN s
    ELSE
      LET s1 == [s EXCEPT !.gameActive = FALSE]
          s2 == IdentifyWinningPlayer(s1)
          s3 == ClearRestartTimer(s2)
          s4 == [s3 EXCEPT !.isWaitingForPlayers = TRUE, !.isCountingDown = FALSE,
                           !.playerCount = Cardinality(s3.connected)]
          s5 == UpdatePlayerCountUI(s4)
      IN [s5 EXCEPT !.restartTimer = "pending", !.restartTimers = @ + 1]

\* The interval body testing `< 0` where the code tests `<= 0`.
CountdownBody_BelowZero(s, now) ==
  LET s1 == [s EXCEPT !.countdownSeconds = @ - 1]
      s2 == SendCountdownUpdateToAll(s1, s1.countdownSeconds, TRUE)
  IN IF s2.countdownSeconds < 0
       THEN StartGame([ClearCountdownTimer(s2) EXCEPT !.isCountingDown = FALSE], now)
       ELSE s2

\* The body of the countdown interval.
CountdownBody(s, now) ==
  LET s1 == [s EXCEPT !.countdownSeconds = @ - 1]
      s2 == SendCountdownUpdateToAll(s1, s1.countdownSeconds, TRUE)
  IN IF s2.countdownSeconds <= 0
       THEN StartGame([ClearCountdownTimer(s2) EXCEPT !.isCountingDown = FALSE], now)
       ELSE s2

\* handlePlayerJoined without the reset of a running countdown.
JoinTail_NoReset(s, p) ==
  LET s1 == UpdatePlayerCountUI([s EXCEPT !.playerCount = @ + 1, !.joinPc[p] = "idle"])
  IN IF ~s1.gameActive /\ ~s1.isWaitingForPlayers /\ ~s1.isCountingDown
       THEN WaitForPlayersToStart([s1 EXCEPT !.isWaitingForPlayers = TRUE])
       ELSE s1

\* handlePlayerJoined calling _waitForPlayersToStart whenever no countdown runs.
JoinTail_AlwaysPolls(s, p) ==
  LET s1 == UpdatePlayerCountUI([s EXCEPT !.playerCount = @ + 1, !.joinPc[p] = "idle"])
  IN IF s1.isCountingDown
       THEN StartCountdown(s1)
       ELSE IF ~s1.gameActive
              THEN WaitForPlayersToStart([s1 EXCEPT !.isWaitingForPlayers = TRUE])
              ELSE s1

\* handlePlayerJoined after `await this.spawnPlayerEntity(player)`.
JoinTail(s, p) ==
  LET s1 == UpdatePlayerCountUI([s EXCEPT !.playerCount = @ + 1, !.joinPc[p] = "idle"])
      s2 == UpdatePlayerCountUI(s1)
  IN IF s2.isCountingDown
       THEN StartCountdown(Send(s2, [type |-> "log", to |-> {},
                                     text |-> "Player joined during countdown. Resetting timer."]))
       ELSE IF ~s2.gameActive /\ ~s2.isWaitingForPlayers /\ ~s2.isCountingDown
              THEN WaitForPlayersToStart([s2 EXCEPT !.isWaitingForPlayers = TRUE])
              ELSE s2

\* ------------------------------------------------------ player session
\* The health and shield setters: the value is clamped.
\* The health setter without the clamp.
SetHealth_NoClamp(s, p, value) == [s EXCEPT !.health[p] = value]

SetHealth(s, p, value) == [s EXCEPT !.health[p] = Max(0, Min(value, MAX_HEALTH))]

SetShield(s, p, value) == [s EXCEPT !.shield[p] = Max(0, Min(value, MAX_SHIELD))]

\* GamePlayerEntity.checkDeath.  The attacker's entity is the attacker's
\* current one (attacks are enumerated for connected attackers only).
CheckDeath(s, p, attacker) ==
  IF s.health[p] <= 0
    THEN
      LET s1 == [s EXCEPT !.dead[p] = TRUE]
          s2 == IF attacker # NoPlayer
                  THEN AddExp(AddKill(s1, attacker), attacker, RANK_KILL_EXP)
                  ELSE s1
      IN IF p \in s2.connected
           THEN [s2 EXCEPT !.respawnTimers[p] = @ + 1]
           ELSE s2
    ELSE s

\* takeDamage without the `_dead` test of its guard.
TakeDamage_NoDeadGuard(s, p, damage, attacker) ==
  IF p \notin s.connected \/ ~s.gameActive
    THEN s
    ELSE
      LET s1 == Send(s, [type |-> "damage-indicator", to |-> {p}])
      IN IF s1.shield[p] > 0
           THEN
             LET shieldDamage == Min(damage, s1.shield[p])
                 s2 == SetShield(s1, p, s1.shield[p] - shieldDamage)
                 rest == damage - shieldDamage
             IN IF rest = 0
                  THEN s2
                  ELSE CheckDeath(SetHealth(s2, p, s2.health[p] - rest), p, attacker)
           ELSE CheckDeath(SetHealth(s1, p, s1.health[p] - damage), p, attacker)

\* takeDamage without `damage -= shieldDamage`: health takes the whole amount.
TakeDamage_NoRemainder(s, p, damage, attacker) ==
  IF p \notin s.connected \/ ~s.gameActive \/ s.dead[p]
    THEN s
    ELSE
      LET s1 == Send(s, [type |-> "damage-indicator", to |-> {p}])
      IN IF s1.shield[p] > 0
           THEN
             LET shieldDamage == Min(damage, s1.shield[p])
                 s2 == SetShield(s1, p, s1.shield[p] - shieldDamage)
             IN IF damage - shieldDamage = 0
                  THEN s2
                  ELSE CheckDeath(SetHealth(s2, p, s2.health[p] - damage), p, attacker)
           ELSE CheckDeath(SetHealth(s1, p, s1.health[p] - damage), p, attacker)

\* GamePlayerEntity.takeDamage.
TakeDamage(s, p, damage, attacker) ==
  IF p \notin s.connected \/ ~s.gameActive \/ s.dead[p]
    THEN s
    ELSE
      LET s1 == Send(s, [type |-> "damage-indicator", to |-> {p}])
      IN IF s1.shield[p] > 0
           THEN
             LET shieldDamage == Min(damage, s1.shield[p])
                 s2 == SetShield(s1, p, s1.shield[p] - shieldDamage)
                 rest == damage - shieldDamage
             IN IF rest = 0
                  THEN s2
                  ELSE CheckDeath(SetHealth(s2, p, s2.health[p] - rest), p, attacker)
           ELSE CheckDeath(SetHealth(s1, p, s1.health[p] - damage), p, attacker)

\* respawn leaving the dead flag set.
Respawn_StaysDead(s, p) ==
  IF p \notin s.connected
    THEN s
    ELSE SetShield(SetHealth(s, p, MAX_HEALTH), p, 0)

\* GamePlayerEntity.respawn; a despawned entity has no world.
Respawn(s, p) ==
  IF p \notin s.connected
    THEN s
    ELSE SetShield(SetHealth([s EXCEPT !.dead[p] = FALSE], p, MAX_HEALTH), p, 0)

\* GamePlayerEntity.updateHealth / updateShield (called by consumable items).
UpdateHealth(s, p, amount) == SetHealth(s, p, Min(s.health[p] + amount, MAX_HEALTH))

UpdateShield(s, p, amount) == SetShield(s, p, Min(s.shield[p] + amount, MAX_SHIELD))

\* The body of the 2 s timeout of _autoHealTicker, for a spawned entity.
AutoHealBody(s, p) ==
  IF s.health[p] < MAX_HEALTH /\ ~s.dead[p]
    THEN SetHealth(s, p, s.health[p] + 1)
    ELSE s

\* A new GamePlayerEntity: the field initialisers.
NewEntity(s, p) ==
  [s EXCEPT !.health[p] = BASE_HEALTH, !.shield[p] = BASE_SHIELD,
            !.dead[p] = FALSE, !.totalExp[p] = 0, !.lastExpSave[p] = 0,
            !.rankIndex[p] = 0, !.respawnTimers[p] = 0]

\* ------------------------------------------------------------ the gun
\* A new CustomGunEntity with the default options: a full clip, not
\* reloading, never fired, not spawned and in nobody's hands.
NewGun ==
  [ammo |-> MaxAmmo, customReloading |-> FALSE, customLastFireTime |-> 0,
   isSpawned |-> FALSE, parent |-> FALSE, finishTimers |-> 0]

\* CustomGunEntity.reload: starts the cooldown and its timeout unless the gun
\* is in nobody's hands, already reloading, or the clip is not empty.
Reload(g) ==
  IF ~g.parent \/ g.customReloading \/ g.ammo > 0
    THEN g
    ELSE [g EXCEPT !.customReloading = TRUE, !.finishTimers = @ + 1]

\* processShoot without the test of the time since the last shot.
ProcessShoot_NoCooldown(g, now) ==
  IF g.customReloading
    THEN [gun |-> g, ok |-> FALSE]
    ELSE IF g.ammo <= 0
           THEN [gun |-> Reload(g), ok |-> FALSE]
           ELSE [gun |-> [g EXCEPT !.ammo = @ - 1, !.customLastFireTime = now],
                 ok |-> TRUE]

\* CustomGunEntity.processShoot at time now: the gun afterwards and the
\* value returned.  now - last < 1000 / fireRate is compared without division.
ProcessShoot(g, now) ==
  IF g.customReloading
    THEN [gun |-> g, ok |-> FALSE]
    ELSE IF g.customLastFireTime # 0
              /\ (now - g.customLastFireTime) * FIRE_RATE < 1000
           THEN [gun |-> g, ok |-> FALSE]
           ELSE IF g.ammo <= 0
                  THEN [gun |-> Reload(g), ok |-> FALSE]
                  ELSE [gun |-> [g EXCEPT !.ammo = @ - 1, !.customLastFireTime = now],
                        ok |-> TRUE]

\* CustomGunEntity.shoot: super.shoot() runs when processShoot accepts.
Shoot(g, now) ==
  IF ~g.parent THEN [gun |-> g, ok |-> FALSE] ELSE ProcessShoot(g, now)

\* _finishReloadCustom without the refill.
FinishReloadCustom_NoRefill(g) == [g EXCEPT !.customReloading = FALSE]

\* CustomGunEntity._finishReloadCustom.
FinishReloadCustom(g) ==
  IF ~g.isSpawned \/ ~g.customReloading
    THEN [g EXCEPT !.customReloading = FALSE]
    ELSE [g EXCEPT !.customReloading = FALSE, !.ammo = MaxAmmo]

\* ------------------------------------------------------ the projectile
\* Distances are counted in half metres.
DistScale == 2

Distances == 0..MaxDistance

\* The denominator of every damage multiplier: a multiplier m is held as the
\* integer m * MultiplierDen.
MultiplierDen ==
  DistScale * (MIN_DAMAGE_RANGE - FULL_DAMAGE_RANGE) * MIN_DAMAGE_MULTIPLIER_DEN

\* The drop-off without the test `distance >= MIN_DAMAGE_RANGE`.
DamageMultiplier_NoFloor(distance) ==
  IF distance > FULL_DAMAGE_RANGE * DistScale
    THEN MultiplierDen - (distance - FULL_DAMAGE_RANGE * DistScale)
                           * (MIN_DAMAGE_MULTIPLIER_DEN - MIN_DAMAGE_MULTIPLIER_NUM)
    ELSE MultiplierDen

\* damageMultiplier of _handleEntityCollision, times MultiplierDen:
\* 1.0 - (distanceIntoDropoff / rangeSpan) * (1.0 - MIN_DAMAGE_MULTIPLIER)
\* between the two ranges.
DamageMultiplier(distance) ==
  IF distance > FULL_DAMAGE_RANGE * DistScale
    THEN IF distance >= MIN_DAMAGE_RANGE * DistScale
           THEN MIN_DAMAGE_MULTIPLIER_NUM * (MultiplierDen \div MIN_DAMAGE_MULTIPLIER_DEN)
           ELSE MultiplierDen - (distance - FULL_DAMAGE_RANGE * DistScale)
                                  * (MIN_DAMAGE_MULTIPLIER_DEN - MIN_DAMAGE_MULTIPLIER_NUM)
    ELSE MultiplierDen

\* Math.round of num / den: the nearest integer, a half going up.
MathRound(num, den) == (2 * num + den) \div (2 * den)

\* finalDamage = Math.round(this.initialDamage * damageMultiplier).
FinalDamage(initialDamage, distance) ==
  MathRound(initialDamage * DamageMultiplier(distance), MultiplierDen)

\* What a projectile can collide with besides a player's entity.
AProjectile == 0 - 1
AnItem == 0 - 2

\* No projectile constructed yet.
NoProjectile ==
  [id |-> 0, isSpawned |-> FALSE, shooter |-> NoPlayer, initialDamage |-> 0,
   lifeTimeout |-> FALSE, lifeTimers |-> 0, elapsed |-> 0,
   despawns |-> 0, hits |-> 0, ignored |-> FALSE]

\* new PaintballProjectileEntity({ shooter, initialDamage }) followed by
\* spawn: super.spawn, then the lifetime timeout (a new object has no
\* previous one to clear).  despawns and hits count what happens to it, and
\* ignored tells that it went through its shooter or another projectile.
SpawnProjectile(pr, shooter, initialDamage) ==
  [id |-> pr.id + 1, isSpawned |-> TRUE, shooter |-> shooter,
   initialDamage |-> initialDamage, lifeTimeout |-> TRUE, lifeTimers |-> 1,
   elapsed |-> 0, despawns |-> 0, hits |-> 0, ignored |-> FALSE]

\* despawn leaving the lifetime timeout pending.
DespawnProjectile_KeepTimer(pr) ==
  [pr EXCEPT !.isSpawned = FALSE, !.despawns = @ + 1]

\* PaintballProjectileEntity.despawn: clears the lifetime timeout, then
\* super.despawn.
DespawnProjectile(pr) ==
  LET pr1 == IF pr.lifeTimeout
               THEN [pr EXCEPT !.lifeTimers = 0, !.lifeTimeout = FALSE]
               ELSE pr
  IN [pr1 EXCEPT !.isSpawned = FALSE, !.despawns = @ + 1]

\* GamePlayerEntity.dealtDamage.
DealtDamage(s, p, damage) ==
  Send(s, [type |-> "show-damage", to |-> {p}, damage |-> damage])

\* _handleEntityCollision without the test `!this.isSpawned`.
HandleEntityCollision_NoSpawnedTest(s, pr, started, otherEntity, distance) ==
  IF ~started
    THEN [s |-> s, pr |-> pr]
    ELSE IF otherEntity = pr.shooter \/ otherEntity = AProjectile
      THEN [s |-> s, pr |-> [pr EXCEPT !.ignored = TRUE]]
      ELSE
        LET finalDamage == FinalDamage(pr.initialDamage, distance)
        IN IF otherEntity \in Players /\ ~s.dead[otherEntity] /\ finalDamage > 0
             THEN [s |-> TakeDamage(DealtDamage(s, pr.shooter, finalDamage),
                                    otherEntity, finalDamage, pr.shooter),
                   pr |-> DespawnProjectile([pr EXCEPT !.hits = @ + 1])]
             ELSE [s |-> s, pr |-> DespawnProjectile(pr)]

\* _handleEntityCollision without the test for the shooter and for other
\* projectiles.
HandleEntityCollision_HitsAnyone(s, pr, started, otherEntity, distance) ==
  IF ~started \/ ~pr.isSpawned
    THEN [s |-> s, pr |-> pr]
    ELSE
      LET finalDamage == FinalDamage(pr.initialDamage, distance)
      IN IF otherEntity \in Players /\ ~s.dead[otherEntity] /\ finalDamage > 0
           THEN [s |-> TakeDamage(DealtDamage(s, pr.shooter, finalDamage),
                                  otherEntity, finalDamage, pr.shooter),
                 pr |-> DespawnProjectile([pr EXCEPT !.hits = @ + 1])]
           ELSE [s |-> s, pr |-> DespawnProjectile(pr)]

\* PaintballProjectileEntity._handleEntityCollision: the match and session
\* state and the projectile afterwards.  distance is the one from the
\* shooter's position to the projectile's.
HandleEntityCollision(s, pr, started, otherEntity, distance) ==
  IF ~started \/ ~pr.isSpawned
    THEN [s |-> s, pr |-> pr]
    ELSE IF otherEntity = pr.shooter \/ otherEntity = AProjectile
      THEN [s |-> s, pr |-> [pr EXCEPT !.ignored = TRUE]]
      ELSE
        LET finalDamage == FinalDamage(pr.initialDamage, distance)
        IN IF otherEntity \in Players /\ ~s.dead[otherEntity] /\ finalDamage > 0
             THEN [s |-> TakeDamage(DealtDamage(s, pr.shooter, finalDamage),
                                    otherEntity, finalDamage, pr.shooter),
                   pr |-> DespawnProjectile([pr EXCEPT !.hits = @ + 1])]
             ELSE [s |-> s, pr |-> DespawnProjectile(pr)]

\* PaintballProjectileEntity._handleBlockCollision: a splatter entity when
\* the simulation has a contact point for the two colliders, then despawn.
HandleBlockCollision(s, pr, started, contact) ==
  IF ~started \/ ~pr.isSpawned
    THEN [s |-> s, pr |-> pr]
    ELSE [s |-> IF contact THEN Send(s, [type |-> "splatter", to |-> {}]) ELSE s,
          pr |-> DespawnProjectile(pr)]

\* The callback of the lifetime timeout.
LifeTimeoutBody(pr) == IF pr.isSpawned THEN DespawnProjectile(pr) ELSE pr

\* ------------------------------------------------------- the lattice
\* The block coordinates followed: the row z = 0 of the bedrock layer and of
\* the layers above it.
Coords == {<<x, y, 0>> : x \in (0 - MaxCoord)..MaxCoord, y \in (0 - 1)..MaxHeight}

\* A raycast that hits no block.
NoBlock == <<0, 0 - 2, 0>>

AIR_BLOCK_ID == 0
\* The block type of the map's blocks.
MAP_BLOCK_ID == 2
\* DEFAULT_PICKAXE_OPTIONS.damage.
PICKAXE_DAMAGE == 10

\* The lattice after world.loadMap and _spawnBedrock: the map's blocks with
\* bedrock at every { x, y: -1, z }.
NewLattice ==
  [c \in Coords |-> IF c[2] = 0 - 1 THEN BEDROCK_BLOCK_ID ELSE MAP_BLOCK_ID]

\* MeleeWeaponEntity._handleHitEntity: the weapon's damage to a player's
\* entity, with the holder as attacker.
HandleHitEntity(s, p, hitEntity) == TakeDamage(s, hitEntity, PICKAXE_DAMAGE, p)

\* this._hitAudio.play(world, true).
HitAudio(s, site) == Send(s, [type |-> "hit-audio", to |-> {}, site |-> site])

\* attackRaycast without the test `globalCoordinate.y < 0`.
AttackRaycast_NoFloor(s, b, p, hitBlock, hitEntity) ==
  IF p \notin s.connected
    THEN [s |-> s, b |-> b]
    ELSE
      LET s1 == IF hitBlock # NoBlock
                  THEN HitAudio(s, "block")
                  ELSE s
          b1 == IF hitBlock # NoBlock THEN [b EXCEPT ![hitBlock] = AIR_BLOCK_ID] ELSE b
          s2 == IF hitEntity # NoPlayer
                  THEN HitAudio(HandleHitEntity(s1, p, hitEntity), "entity")
                  ELSE s1
      IN [s |-> s2, b |-> b1]

\* PickaxeEntity.attackRaycast of the pickaxe held by p, for what the
\* simulation's raycast returns; the hit sound is a message to nobody, with
\* the place in the code it is played at.
AttackRaycast(s, b, p, hitBlock, hitEntity) ==
  IF p \notin s.connected
    THEN [s |-> s, b |-> b]
    ELSE IF hitBlock # NoBlock /\ hitBlock[2] < 0
      THEN [s |-> HitAudio(s, "floor"), b |-> b]
      ELSE
        LET s1 == IF hitBlock # NoBlock
                    THEN HitAudio(s, "block")
                    ELSE s
            b1 == IF hitBlock # NoBlock THEN [b EXCEPT ![hitBlock] = AIR_BLOCK_ID] ELSE b
            s2 == IF hitEntity # NoPlayer
                    THEN HitAudio(HandleHitEntity(s1, p, hitEntity), "entity")
                    ELSE s1
        IN [s |-> s2, b |-> b1]

\* --------------------------------------------------- despawned entities
\* A GamePlayerEntity that LEFT_WORLD has despawned stays referenced by the
\* timeouts it had scheduled.  Its record holds the fields those timeouts
\* read and write, where the avatar is, the _giveStartingGun calls made for
\* it since, and its pending timeouts; world is set exactly when isSpawned.
Positions == {"map", "below"}

NoEntity ==
  [isSpawned |-> FALSE, dead |-> FALSE, health |-> BASE_HEALTH, shield |-> BASE_SHIELD,
   activeSlot |-> 0, position |-> "map", gunGrants |-> 0,
   respawnTimers |-> 0, healTimers |-> 0, outTimers |-> 0]

PendingTimeouts(e) == e.respawnTimers + e.healTimers + e.outTimers

\* takeDamage(MAX_HEALTH + MAX_SHIELD) on the entity e, without attacker.
EntityTakeDamage(e, active) ==
  IF ~e.isSpawned \/ ~active \/ e.dead
    THEN e
    ELSE [e EXCEPT !.shield = 0, !.health = 0, !.dead = TRUE, !.respawnTimers = @ + 1]

\* respawn without the test of the world.
EntityRespawn_NoWorldTest(e) ==
  [e EXCEPT !.dead = FALSE, !.health = MAX_HEALTH, !.shield = 0,
            !.activeSlot = 0, !.position = "spawn", !.gunGrants = @ + 1]

\* GamePlayerEntity.respawn on the entity e.
EntityRespawn(e) ==
  IF ~e.isSpawned
    THEN e
    ELSE [e EXCEPT !.dead = FALSE, !.health = MAX_HEALTH, !.shield = 0,
                   !.activeSlot = 0, !.position = "spawn", !.gunGrants = @ + 1]

\* The timeout of _autoHealTicker on the entity e.
AutoHealTimeout(e) ==
  IF ~e.isSpawned
    THEN e
    ELSE LET e1 == IF e.health < MAX_HEALTH /\ ~e.dead
                     THEN [e EXCEPT !.health = Min(@ + 1, MAX_HEALTH)]
                     ELSE e
         IN [e1 EXCEPT !.healTimers = @ + 1]

\* The timeout of _outOfWorldTicker on the entity e.
OutOfWorldTimeout(e, active) ==
  IF ~e.isSpawned
    THEN e
    ELSE LET e1 == IF e.position = "below" /\ ~e.dead
                     THEN EntityTakeDamage(e, active)
                     ELSE e
         IN [e1 EXCEPT !.outTimers = @ + 1]

\* ------------------------------------------------------------- actions
InitFields ==
  /\ gameActive = FALSE
  /\ isWaitingForPlayers = FALSE
  /\ isCountingDown = FALSE
  /\ countdownSeconds = COUNTDOWN_SECONDS
  /\ playerCount = 0
  /\ gameStartAt = 0
  /\ killCounter = <<>>
  /\ countdownTimer = "none"
  /\ countdownIntervals = 0
  /\ gameTimer = "none"
  /\ gameTimers = 0
  /\ restartTimer = "none"
  /\ restartTimers = 0
  /\ pollTimers = 0
  /\ connected = {}
  /\ joinPc = [p \in Players |-> "idle"]
  /\ health = [p \in Players |-> BASE_HEALTH]
  /\ shield = [p \in Players |-> BASE_SHIELD]
  /\ dead = [p \in Players |-> FALSE]
  /\ totalExp = [p \in Players |-> 0]
  /\ lastExpSave = [p \in Players |-> 0]
  /\ persisted = [p \in Players |-> <<>>]
  /\ respawnTimers = [p \in Players |-> 0]
  /\ inventory = [p \in Players |-> [k \in 1..TOTAL_INVENTORY_SLOTS |-> "none"]]
  /\ activeSlot = [p \in Players |-> 0]
  /\ pendingGuns = [p \in Players |-> 0]
  /\ rankIndex = [p \in Players |-> 0]
  /\ gun = NewGun
  /\ clock = 1
  /\ projectile = NoProjectile
  /\ blocks = NewLattice
  /\ departed = [p \in Players |-> NoEntity]
  /\ gameTimerDue = 0
  /\ position = [p \in Players |-> "spawn"]
  /\ ui = <<>>

\* The server after setupGame, with the rank table of gameConfig.
Init == InitFields /\ ranks = RANKS

\* PlayerEvent.JOINED_WORLD: handlePlayerJoined up to `await _setupPlayerUI()`
\* inside GamePlayerEntity.spawn.  A player joins again only once the
\* previous join of the same player has run to its end.
JoinedWorld(p) ==
  /\ p \notin connected
  /\ joinPc[p] = "idle"
  /\ Commit([NewEntity(Cur, p) EXCEPT !.connected = @ \cup {p}, !.joinPc[p] = "awaitUI"])

\* The UI has loaded: the rest of spawn, then spawnPlayerEntity up to
\* `await this.player.getPersistedData()`; a despawned entity loads nothing
\* and the join runs on to its end.
UILoaded(p) ==
  /\ joinPc[p] = "awaitUI"
  /\ LET s2 == SyncLeaderboard(SyncTimer(Cur, {p}), {p})
         s3 == IF s2.gameActive
                 THEN SendGameStartAnnouncements(s2, {p})
                 ELSE IF s2.isCountingDown
                        THEN Send(s2, [type |-> "countdown-update", to |-> {p},
                                       seconds |-> s2.countdownSeconds, show |-> TRUE])
                        ELSE s2
     IN IF p \in connected
          THEN Commit([s3 EXCEPT !.joinPc[p] = "awaitData"])
          ELSE Commit(JoinTail(s3, p))

\* The persisted record has arrived: the rest of loadPersistedData, then the
\* rest of handlePlayerJoined.
DataLoaded(p) ==
  /\ joinPc[p] = "awaitData"
  /\ LET s1 == IF p \in connected /\ persisted[p] # <<>>
                 THEN [Cur EXCEPT !.lastExpSave[p] = persisted[p][1],
                                  !.totalExp[p] = persisted[p][1]]
                 ELSE Cur
     IN Commit(JoinTail(UpdatePlayerUIExp(s1, p), p))

\* LEFT_WORLD ending the match when the last player leaves.
LeftWorld_EndsEmptyMatch(p) ==
  /\ p \in connected
  /\ LET s1 == NewEntity([Cur EXCEPT !.connected = @ \ {p}], p)
         s2 == UpdatePlayerCountUI([s1 EXCEPT !.playerCount = @ - 1])
     IN Commit(IF s2.connected = {} THEN EndGame(s2) ELSE s2)

\* PlayerEvent.LEFT_WORLD: the player's entities are despawned and the
\* count decremented.  The despawned entity is referenced no more.
LeftWorld(p) ==
  /\ p \in connected
  /\ LET s1 == NewEntity([Cur EXCEPT !.connected = @ \ {p}], p)
     IN Commit(UpdatePlayerCountUI([s1 EXCEPT !.playerCount = @ - 1]))

\* The 1 s timeout set by _waitForPlayersToStart.
PollTick ==
  /\ pollTimers > 0
  /\ LET s1 == [Cur EXCEPT !.pollTimers = @ - 1]
     IN Commit(IF s1.isWaitingForPlayers THEN WaitForPlayersToStart(s1) ELSE s1)

\* The 10 s timeout set by endGame; cur tells whether the timeout firing is
\* the one the field _restartTimer refers to.
RestartTimerFire ==
  /\ restartTimers > 0
  /\ \E cur \in {b \in BOOLEAN : IF b THEN restartTimer = "pending"
                                      ELSE restartTimers > (IF restartTimer = "pending" THEN 1 ELSE 0)} :
       LET s1 == [Cur EXCEPT !.restartTimers = @ - 1,
                             !.restartTimer = IF cur THEN "dead" ELSE @]
       IN Commit(WaitForPlayersToStart(s1))

\* One tick of a pending countdown interval.
CountdownTick ==
  /\ countdownIntervals > 0
  /\ \E now \in Times : Commit(CountdownBody(Cur, now))

\* The match-end timeout set by startGame.
GameTimerFire ==
  /\ gameTimers > 0
  /\ \E cur \in {b \in BOOLEAN : IF b THEN gameTimer = "pending"
                                      ELSE gameTimers > (IF gameTimer = "pending" THEN 1 ELSE 0)} :
       LET s1 == [Cur EXCEPT !.gameTimers = @ - 1,
                             !.gameTimer = IF cur THEN "dead" ELSE @]
       IN Commit(EndGame(s1))

\* The 5 s timeout set by checkDeath.
RespawnTimerFire(p) ==
  /\ respawnTimers[p] > 0
  /\ Commit(Respawn([Cur EXCEPT !.respawnTimers[p] = @ - 1], p))

PersistedExp(p) == IF persisted[p] = <<>> THEN 0 ELSE persisted[p][1]

\* Attacks are enumerated while the attacker's kill count and experience
\* leave room for one more kill and a win award.
KillBudget(a) ==
  \/ a = NoPlayer
  \/ /\ a \in connected
     /\ KillCountOf(killCounter, a) < MaxKills
     /\ totalExp[a] + RANK_KILL_EXP + RANK_WIN_EXP <= MaxExp
     /\ PersistedExp(a) + RANK_KILL_EXP + RANK_WIN_EXP <= MaxExp

\* A call of takeDamage (a projectile hit, a melee hit, the out-of-world check).
Damage(p, damage, attacker) ==
  /\ KillBudget(attacker)
  /\ Commit(TakeDamage(Cur, p, damage, attacker))

Next ==
  \/ \E p \in Players : JoinedWorld(p)
  \/ \E p \in Players : UILoaded(p)
  \/ \E p \in Players : DataLoaded(p)
  \/ \E p \in Players : LeftWorld(p)
  \/ PollTick
  \/ RestartTimerFire
  \/ CountdownTick
  \/ GameTimerFire
  \/ \E p \in Players : RespawnTimerFire(p)
  \/ \E p \in Players, d \in DamageAmounts, a \in Players \cup {NoPlayer} : Damage(p, d, a)

Spec == Init /\ [][Next]_vars

\* The match cycle with joins, leaves, respawns and the lethal hits of one
\* attacker (on others and on itself).
LethalHit(p) == Damage(p, MAX_HEALTH + MAX_SHIELD, 1)

NextMatch ==
  \/ \E p \in Players : JoinedWorld(p)
  \/ \E p \in Players : UILoaded(p)
  \/ \E p \in Players : DataLoaded(p)
  \/ \E p \in Players : LeftWorld(p)
  \/ PollTick
  \/ RestartTimerFire
  \/ CountdownTick
  \/ GameTimerFire
  \/ \E p \in Players : RespawnTimerFire(p)
  \/ \E p \in Players : LethalHit(p)

\* The event loop fires a timeout that stays pending.
FairMatch == Init /\ [][NextMatch]_vars /\ WF_vars(GameTimerFire)


\* The event loop fires every respawn timeout that stays pending.
FairRespawn ==
  Init /\ [][NextMatch]_vars /\ \A p \in Players : WF_vars(RespawnTimerFire(p))

\* ------------------------------------------------------- combat slice
\* The match cycle without leaves, with hits of several amounts, consumables
\* and the two tickers of a session.  Only states whose health and shield
\* are within MaxWound of 0 or of the maximum are followed.
CombatDamage == {0 - 1, 0, 1, MAX_HEALTH - 1, MAX_HEALTH, MAX_HEALTH + MAX_SHIELD}

CombatGains == {1, MAX_HEALTH}

InWindow(v, max) == v <= MaxWound \/ v >= max - MaxWound

CombatCommit(s) ==
  /\ \A p \in Players : InWindow(s.health[p], MAX_HEALTH) /\ InWindow(s.shield[p], MAX_SHIELD)
  /\ Commit(s)

\* A call of takeDamage without attacker.
Hit(p, damage) == CombatCommit(TakeDamage(Cur, p, damage, NoPlayer))

\* A consumable calling updateHealth / updateShield on a spawned session.
HealthGain(p, amount) ==
  /\ p \in connected
  /\ CombatCommit(UpdateHealth(Cur, p, amount))

ShieldGain(p, amount) ==
  /\ p \in connected
  /\ CombatCommit(UpdateShield(Cur, p, amount))

\* The tickers are started by spawn once the UI has loaded and stop when the
\* entity is despawned.
AutoHealTick(p) ==
  /\ p \in connected /\ joinPc[p] # "awaitUI"
  /\ CombatCommit(AutoHealBody(Cur, p))

\* The 3 s timeout of _outOfWorldTicker finding the entity below y = -100.
OutOfWorldTick(p) ==
  /\ p \in connected /\ joinPc[p] # "awaitUI"
  /\ ~dead[p]
  /\ CombatCommit(TakeDamage(Cur, p, MAX_HEALTH + MAX_SHIELD, NoPlayer))

NextCombat ==
  \/ \E p \in Players : JoinedWorld(p)
  \/ \E p \in Players : UILoaded(p)
  \/ \E p \in Players : DataLoaded(p)
  \/ PollTick
  \/ RestartTimerFire
  \/ CountdownTick
  \/ GameTimerFire
  \/ \E p \in Players : RespawnTimerFire(p)
  \/ \E p \in Players, d \in CombatDamage : Hit(p, d)
  \/ \E p \in Players, a \in CombatGains : HealthGain(p, a)
  \/ \E p \in Players, a \in CombatGains : ShieldGain(p, a)
  \/ \E p \in Players : AutoHealTick(p)
  \/ \E p \in Players : OutOfWorldTick(p)

SpecCombat == Init /\ [][NextCombat]_vars

\* ---------------------------------------------------- inventory slice
\* The inventory of a session under the events that touch it.  The match is
\* reduced to its start, which grants a gun to every connected session, and
\* to the deaths and respawns of the session.
InvPlayers == {1}

PickupKinds == {"item"}

InvCur ==
  [inventory |-> inventory, activeSlot |-> activeSlot, pendingGuns |-> pendingGuns,
   connected |-> connected, joinPc |-> joinPc, dead |-> dead, health |-> health,
   respawnTimers |-> respawnTimers, ui |-> <<>>]

InvCommit(s) ==
  /\ inventory' = s.inventory
  /\ activeSlot' = s.activeSlot
  /\ pendingGuns' = s.pendingGuns
  /\ connected' = s.connected
  /\ joinPc' = s.joinPc
  /\ dead' = s.dead
  /\ health' = s.health
  /\ respawnTimers' = s.respawnTimers
  /\ ui' = s.ui
  /\ UNCHANGED <<gameActive, isWaitingForPlayers, isCountingDown, countdownSeconds,
                 playerCount, gameStartAt, killCounter, countdownTimer,
                 countdownIntervals, gameTimer, gameTimers, restartTimer,
                 restartTimers, pollTimers, shield, totalExp, lastExpSave, persisted,
                 ranks, rankIndex>>
  /\ UNCHANGED itemVars

\* this._inventory[i]: undefined outside the array.
Slot(inv, i) == IF i + 1 \in DOMAIN inv THEN inv[i + 1] ELSE "none"

\* this._inventory[i] = item: an index at or past the length extends the array.
SetSlot(inv, i, item) ==
  [k \in 1..Max(Len(inv), i + 1) |->
     IF k = i + 1 THEN item ELSE IF k <= Len(inv) THEN inv[k] ELSE "none"]

\* item.drop(position, direction): the item goes into the world.
ItemDrop(s, p, i) ==
  Send(s, [type |-> "item-drop", to |-> {}, owner |-> p, slot |-> i,
           item |-> Slot(s.inventory[p], i)])

CannotDrop == "You cannot drop your pickaxe!"

CannotReplace ==
  "You cannot replace your pickaxe! Switch to a different item first to pick up this item."

SendPlayerMessage(s, p, text) == Send(s, [type |-> "chat", to |-> {p}, text |-> text])

FindInventorySlot(s, p) ==
  LET inv == s.inventory[p]
      active == s.activeSlot[p]
      empty == {k \in DOMAIN inv : inv[k] = "none"}
  IN IF Slot(inv, active) = "none"
       THEN active
       ELSE IF empty # {}
              THEN (CHOOSE k \in empty : \A j \in empty : k <= j) - 1
              ELSE active

SetActiveInventorySlotIndex(s, p, index) == [s EXCEPT !.activeSlot[p] = index]

\* dropActiveInventoryItem without the test for slot 0.
DropActiveInventoryItem_NoRefusal(s, p) ==
  LET active == s.activeSlot[p]
  IN IF Slot(s.inventory[p], active) = "none"
       THEN s
       ELSE [ItemDrop(s, p, active) EXCEPT
               !.inventory[p] = SetSlot(@, active, "none")]

DropActiveInventoryItem(s, p) ==
  LET active == s.activeSlot[p]
  IN IF active = 0
       THEN SendPlayerMessage(s, p, CannotDrop)
       ELSE IF Slot(s.inventory[p], active) = "none"
              THEN s
              ELSE [ItemDrop(s, p, active) EXCEPT
                      !.inventory[p] = SetSlot(@, active, "none")]

AddItemToInventory(s, p, item) ==
  LET slot == FindInventorySlot(s, p)
      s1 == IF slot = s.activeSlot[p] THEN DropActiveInventoryItem(s, p) ELSE s
      s2 == [s1 EXCEPT !.inventory[p] = SetSlot(@, slot, item)]
  IN SetActiveInventorySlotIndex(s2, p, s2.activeSlot[p])

\* dropAllInventoryItems: the loop over the indices 2 .. length - 1 drops
\* every item it finds, in the order of the indices, and empties the slot.
DropAllInventoryItems(s, p) ==
  LET inv == s.inventory[p]
      held == {i \in 2..(Len(inv) - 1) : Slot(inv, i) # "none"}
      nth(n) == CHOOSE i \in held : Cardinality({j \in held : j < i}) = n - 1
      drops == [n \in 1..Cardinality(held) |->
                  [type |-> "item-drop", to |-> {}, owner |-> p, slot |-> nth(n),
                   item |-> Slot(inv, nth(n))]]
  IN [s EXCEPT !.inventory[p] = [k \in DOMAIN inv |->
                                   IF k - 1 \in held THEN "none" ELSE inv[k]],
               !.ui = @ \o drops]

\* ItemEntity.pickup(player) hands the item to the player's inventory.
ItemPickup(s, p, item) == AddItemToInventory(s, p, item)

\* _giveStartingGun up to `await ItemFactory.createItem('custom-gun')`.
GiveStartingGun(s, p) ==
  IF p \notin s.connected THEN s ELSE [s EXCEPT !.pendingGuns[p] = @ + 1]

SetupPlayerInventory(s, p) == GiveStartingGun(ItemPickup(s, p, "pickaxe"), p)

\* GamePlayerEntity.spawn up to `await this._setupPlayerUI()`.
InvSpawn(p) ==
  /\ p \notin connected /\ joinPc[p] = "idle"
  /\ InvCommit(SetupPlayerInventory(
       [InvCur EXCEPT !.connected = @ \cup {p}, !.joinPc[p] = "awaitUI"], p))

\* The rest of spawn: setActiveInventorySlotIndex(0).
InvUILoaded(p) ==
  /\ joinPc[p] = "awaitUI"
  /\ InvCommit(SetActiveInventorySlotIndex([InvCur EXCEPT !.joinPc[p] = "idle"], p, 0))

\* The rest of _giveStartingGun: the created gun is picked up.
GunCreated(p) ==
  /\ pendingGuns[p] > 0
  /\ InvCommit(ItemPickup([InvCur EXCEPT !.pendingGuns[p] = @ - 1], p, "gun"))

\* The other end of _giveStartingGun: createItem yields no item or throws, the
\* error is logged and no gun is given.
GunFailed(p) ==
  /\ pendingGuns[p] > 0
  /\ InvCommit([InvCur EXCEPT !.pendingGuns[p] = @ - 1])

\* The loop of startGame that gives every connected player a gun.
MatchStartGrant ==
  /\ connected \cap InvPlayers # {}
  /\ \A p \in InvPlayers : pendingGuns[p] < MaxPendingGuns
  /\ LET RECURSIVE Grant(_, _)
         Grant(s, ps) ==
           IF ps = {} THEN s
           ELSE LET q == CHOOSE q \in ps : TRUE
                IN Grant(GiveStartingGun(s, q), ps \ {q})
     IN InvCommit(Grant(InvCur, connected \cap InvPlayers))

\* checkDeath of a live session whose health a hit has taken to 0.
InvDeath(p) ==
  /\ p \in connected /\ ~dead[p]
  /\ InvCommit([DropAllInventoryItems([InvCur EXCEPT !.dead[p] = TRUE, !.health[p] = 0], p)
                  EXCEPT !.respawnTimers[p] = @ + 1])

\* respawn.
InvRespawn(p) ==
  /\ respawnTimers[p] > 0
  /\ pendingGuns[p] < MaxPendingGuns
  /\ InvCommit(GiveStartingGun(
       SetActiveInventorySlotIndex(
         [InvCur EXCEPT !.respawnTimers[p] = @ - 1, !.dead[p] = FALSE,
                        !.health[p] = MAX_HEALTH], p, 0), p))

\* The inventory-select message of the UI (its handler is registered from the
\* constructor on and does not test _dead), or a hotkey (f, 1..6).
SelectSlot(p, index) ==
  /\ p \in connected
  /\ InvCommit(SetActiveInventorySlotIndex(InvCur, p, index))

\* _handleInteract on an item lying in the world.
Pickup(p, item) ==
  /\ p \in connected /\ ~dead[p]
  /\ InvCommit(IF FindInventorySlot(InvCur, p) = 0
                 THEN SendPlayerMessage(InvCur, p, CannotReplace)
                 ELSE ItemPickup(InvCur, p, item))

\* The drop key.
DropRequest(p) ==
  /\ p \in connected /\ ~dead[p]
  /\ InvCommit(DropActiveInventoryItem(InvCur, p))

NextInv ==
  \/ \E p \in InvPlayers : InvSpawn(p)
  \/ \E p \in InvPlayers : InvUILoaded(p)
  \/ \E p \in InvPlayers : GunCreated(p)
  \/ \E p \in InvPlayers : GunFailed(p)
  \/ MatchStartGrant
  \/ \E p \in InvPlayers : InvDeath(p)
  \/ \E p \in InvPlayers : InvRespawn(p)
  \/ \E p \in InvPlayers, i \in 0..TOTAL_INVENTORY_SLOTS : SelectSlot(p, i)
  \/ \E p \in InvPlayers, item \in PickupKinds : Pickup(p, item)
  \/ \E p \in InvPlayers : DropRequest(p)

SpecInv == Init /\ [][NextInv]_vars

\* --------------------------------------------------- experience slice
\* The players' joins and leaves with the experience awards (a kill, a win)
\* arriving at any moment of the session, the join included.
MaxTotalExp == 11

ExpAwards == {RANK_KILL_EXP, RANK_WIN_EXP}

\* A call of addExp on a session in the world.
GainExp(p, exp) ==
  /\ p \in connected
  /\ totalExp[p] + exp <= MaxTotalExp
  /\ Commit(AddExp(Cur, p, exp))

NextExp ==
  \/ \E p \in Players : JoinedWorld(p)
  \/ \E p \in Players : UILoaded(p)
  \/ \E p \in Players : DataLoaded(p)
  \/ \E p \in Players : LeftWorld(p)
  \/ \E p \in Players, exp \in ExpAwards : GainExp(p, exp)

SpecExp == Init /\ [][NextExp]_vars

\* --------------------------------------------------------- rank slice
\* _totalExpToRankIndex over every table of ascending thresholds up to
\* MaxRanks ranks, applied to the totals that awards produce.
MaxRanks == 3
MaxThreshold == 6

RECURSIVE Ascending(_)
Ascending(R) ==
  Len(R) <= 1 \/ (R[1] <= R[2] /\ Ascending(Tail(R)))

RankTables ==
  UNION {{R \in [1..n -> 0..MaxThreshold] : Ascending(R)} : n \in 1..MaxRanks}

InitRank == InitFields /\ ranks \in RankTables

NextRank ==
  \/ \E p \in Players : JoinedWorld(p)
  \/ \E p \in Players, exp \in ExpAwards : GainExp(p, exp)

SpecRank == InitRank /\ [][NextRank]_vars

\* ---------------------------------------------------------- gun slice
\* One gun from the moment it is given to a player: input ticks with the
\* fire and reload keys, the reload timeout, drops, pickups and the despawn.
ClockSteps == {33, 34}

GunCommit(g, out) ==
  /\ gun' = g
  /\ ui' = out
  /\ UNCHANGED <<gameActive, isWaitingForPlayers, isCountingDown, countdownSeconds,
                 playerCount, gameStartAt, killCounter, countdownTimer,
                 countdownIntervals, gameTimer, gameTimers, restartTimer,
                 restartTimers, pollTimers, connected, joinPc, health, shield, dead,
                 totalExp, lastExpSave, persisted, respawnTimers, inventory,
                 activeSlot, pendingGuns, ranks, rankIndex, projectile, blocks,
                 departed, gameTimerDue, position>>

\* Time passes.
ClockAdvance(d) ==
  /\ clock + d <= MaxClock
  /\ clock' = clock + d
  /\ GunCommit(gun, <<>>)

\* _giveStartingGun after the await: customGun.spawn, customGun.pickup.
GunGiven ==
  /\ ~gun.isSpawned /\ gun.finishTimers = 0 /\ gun.customLastFireTime = 0
  /\ UNCHANGED clock
  /\ GunCommit([gun EXCEPT !.isSpawned = TRUE, !.parent = TRUE], <<>>)

\* The holder drops the gun (dropActiveInventoryItem: item.drop).
GunDropped ==
  /\ gun.isSpawned /\ gun.parent
  /\ UNCHANGED clock
  /\ GunCommit([gun EXCEPT !.parent = FALSE], <<>>)

\* A player picks the gun up from the world (_handleInteract: pickup).
GunPickedUp ==
  /\ gun.isSpawned /\ ~gun.parent
  /\ UNCHANGED clock
  /\ GunCommit([gun EXCEPT !.parent = TRUE], <<>>)

\* The host despawns the gun.
GunDespawned ==
  /\ gun.isSpawned
  /\ UNCHANGED clock
  /\ GunCommit([gun EXCEPT !.isSpawned = FALSE, !.parent = FALSE], <<>>)

\* _handleMouseLeftClick of the holder: activeItem.shoot().
FireRequest ==
  /\ gun.isSpawned /\ gun.parent
  /\ UNCHANGED clock
  /\ LET r == Shoot(gun, clock)
     IN GunCommit(r.gun, IF r.ok THEN <<[type |-> "shoot", to |-> {}, at |-> clock]>>
                                 ELSE <<>>)

\* _handleReload of the holder: activeItem.reload().
ReloadRequest ==
  /\ gun.isSpawned /\ gun.parent
  /\ UNCHANGED clock
  /\ GunCommit(Reload(gun), <<>>)

\* The timeout set by reload fires.
FinishReloadTimerFire ==
  /\ gun.finishTimers > 0
  /\ UNCHANGED clock
  /\ GunCommit(FinishReloadCustom([gun EXCEPT !.finishTimers = @ - 1]), <<>>)

NextGun ==
  \/ \E d \in ClockSteps : ClockAdvance(d)
  \/ GunGiven
  \/ GunDropped
  \/ GunPickedUp
  \/ GunDespawned
  \/ FireRequest
  \/ ReloadRequest
  \/ FinishReloadTimerFire

SpecGun == Init /\ [][NextGun]_vars

\* The event loop fires the reload timeout.
FairGun == Init /\ [][NextGun]_vars /\ WF_vars(FinishReloadTimerFire)

\* --------------------------------------------------- projectile slice
\* The match from the joins to the running round, with the projectiles
\* fired one after the other: the collisions the simulation reports, time
\* passing and the lifetime timeout.
ProjectileDamages == {0, 10, 125}

\* The distances at which the collisions of the slice happen, in half metres.
ImpactDistances ==
  {0, FULL_DAMAGE_RANGE * DistScale, (FULL_DAMAGE_RANGE + MIN_DAMAGE_RANGE) + 1,
   MIN_DAMAGE_RANGE * DistScale, MaxDistance}

\* The time between two looks at a flying projectile.
ProjectileTimeStep == 1500

ProjectileCommit(r) ==
  \E v \in {r} :
    /\ projectile' = v.pr
    /\ SessionCommit(v.s)
    /\ UNCHANGED <<gun, clock, blocks, departed, gameTimerDue, position>>

\* GunEntity.shoot of a gun a player holds: a projectile is constructed and
\* spawned.  The one before it has ended.
ProjectileFired(p, initialDamage) ==
  /\ p \in connected /\ joinPc[p] # "awaitUI"
  /\ ~projectile.isSpawned /\ projectile.lifeTimers = 0
  /\ projectile.id < MaxProjectiles
  /\ ProjectileCommit([s |-> Cur, pr |-> SpawnProjectile(projectile, p, initialDamage)])

\* Time passes for a projectile whose lifetime timeout is pending and not due.
ProjectileTime ==
  /\ projectile.lifeTimers > 0
  /\ projectile.elapsed < PROJECTILE_LIFETIME_MS
  /\ ProjectileCommit([s |-> Cur,
                       pr |-> [projectile EXCEPT !.elapsed = @ + ProjectileTimeStep]])

\* The simulation reports a collision with an entity of the world.
EntityCollision(started, otherEntity, distance) ==
  /\ projectile.id > 0
  /\ otherEntity \in connected \cup {AProjectile, AnItem}
  /\ ProjectileCommit(HandleEntityCollision(Cur, projectile, started, otherEntity, distance))

\* The simulation reports a collision with a block.
BlockCollision(started, contact) ==
  /\ projectile.id > 0
  /\ ProjectileCommit(HandleBlockCollision(Cur, projectile, started, contact))

\* The lifetime timeout is due and fires.
LifeTimerFire ==
  /\ projectile.lifeTimers > 0
  /\ projectile.elapsed >= PROJECTILE_LIFETIME_MS
  /\ ProjectileCommit([s |-> Cur,
                       pr |-> LifeTimeoutBody([projectile EXCEPT !.lifeTimers = @ - 1])])

NextProjectile ==
  \/ \E p \in Players : JoinedWorld(p)
  \/ \E p \in Players : UILoaded(p)
  \/ \E p \in Players : DataLoaded(p)
  \/ PollTick
  \/ CountdownTick
  \/ \E p \in Players : RespawnTimerFire(p)
  \/ \E p \in Players, d \in ProjectileDamages : ProjectileFired(p, d)
  \/ ProjectileTime
  \/ \E started \in BOOLEAN, e \in Players \cup {AProjectile, AnItem},
        d \in ImpactDistances : EntityCollision(started, e, d)
  \/ \E started \in BOOLEAN, contact \in BOOLEAN : BlockCollision(started, contact)
  \/ LifeTimerFire

SpecProjectile == Init /\ [][NextProjectile]_vars

\* Time passes and the event loop fires the lifetime timeout when it is due.
FairProjectile ==
  Init /\ [][NextProjectile]_vars /\ WF_vars(ProjectileTime) /\ WF_vars(LifeTimerFire)

\* ------------------------------------------------------ pickaxe slice
\* The match from the joins to the running round, with the players swinging
\* their pickaxes at the blocks and at each other.
PickaxeCommit(r) ==
  \E v \in {r} :
    /\ blocks' = v.b
    /\ SessionCommit(v.s)
    /\ UNCHANGED <<gun, clock, projectile, departed, gameTimerDue, position>>

\* MeleeWeaponEntity.attack of the pickaxe p holds: attackRaycast, for a
\* raycast that hits a block that is not air, another player's entity,
\* both or nothing.  The entities hit are those in reach of one player, who
\* hits none once it has MaxKills kills.
PickaxeAttack(p, hitBlock, hitEntity) ==
  /\ p \in connected /\ joinPc[p] # "awaitUI"
  /\ hitBlock = NoBlock \/ (hitBlock \in Coords /\ blocks[hitBlock] # AIR_BLOCK_ID)
  /\ \/ hitEntity = NoPlayer
     \/ /\ hitEntity \in connected \ {p}
        /\ p = 1
        /\ KillCountOf(killCounter, p) < MaxKills
        /\ totalExp[p] + RANK_KILL_EXP <= MaxExp
  /\ PickaxeCommit(AttackRaycast(Cur, blocks, p, hitBlock, hitEntity))

NextPickaxe ==
  \/ \E p \in Players : JoinedWorld(p)
  \/ \E p \in Players : UILoaded(p)
  \/ \E p \in Players : DataLoaded(p)
  \/ PollTick
  \/ CountdownTick
  \/ \E p \in Players : RespawnTimerFire(p)
  \/ \E p \in Players, hitBlock \in Coords \cup {NoBlock},
        hitEntity \in Players \cup {NoPlayer} : PickaxeAttack(p, hitBlock, hitEntity)

SpecPickaxe == Init /\ [][NextPickaxe]_vars

\* ---------------------------------------------------------- properties
\* The messages of a type in an outbox.
SentIn(out, type) == {i \in DOMAIN out : out[i].type = type}

\* C1: in every reachable state at most one of _isWaitingForPlayers,
\* _isCountingDown and _gameActive is true.
C1_AtMostOnePhase ==
  /\ ~(isWaitingForPlayers /\ isCountingDown)
  /\ ~(isWaitingForPlayers /\ gameActive)
  /\ ~(isCountingDown /\ gameActive)

\* A match of a later round is running: all three phases have been gone
\* through, and endGame and the restart timeout have acted.
C1_Witness == gameActive /\ restartTimer = "dead" /\ ~isWaitingForPlayers /\ ~isCountingDown

\* C2: at most one countdown interval and at most one match-end timeout are
\* pending, and a pending one is always the one its field refers to, so no
\* tick comes from a superseded countdown and the match-end timeout fires at
\* most once per round.
C2_OnePendingTimer ==
  /\ countdownIntervals = (IF countdownTimer = "pending" THEN 1 ELSE 0)
  /\ gameTimers = (IF gameTimer = "pending" THEN 1 ELSE 0)
  /\ countdownIntervals > 0 => isCountingDown
  /\ gameTimers > 0 => gameActive

\* A countdown of a later round that a join has just restarted.
C2_Witness ==
  /\ isCountingDown /\ countdownIntervals = 1 /\ gameTimer = "dead"
  /\ SentIn(ui, "log") # {}

\* C3: the countdown is entered only from a state that is not Active, with
\* the counter at COUNTDOWN_SECONDS and at least MINIMUM_PLAYERS_TO_START
\* connected players; a check of the waiting loop that finds enough players
\* enters it; and the countdown is left only into Active and Active entered
\* only from the countdown, so Waiting -> CountingDown happens once between
\* entering Waiting and the next Active.
C3_WaitingToCountdown ==
  [][ /\ (~isCountingDown /\ isCountingDown') =>
           /\ ~gameActive /\ ~gameActive'
           /\ ~isWaitingForPlayers'
           /\ countdownSeconds' = COUNTDOWN_SECONDS
           /\ Cardinality(connected') >= MINIMUM_PLAYERS_TO_START
           /\ countdownTimer' = "pending"
      /\ ((PollTick \/ RestartTimerFire) /\ isWaitingForPlayers
            /\ Cardinality(connected) >= MINIMUM_PLAYERS_TO_START) => isCountingDown'
      /\ (isCountingDown /\ ~isCountingDown') => gameActive'
      /\ (~gameActive /\ gameActive') => (isCountingDown /\ countdownSeconds' = 0)
      /\ (~isWaitingForPlayers /\ isWaitingForPlayers') =>
           (~isCountingDown /\ (gameActive \/ restartTimer = "none"))
    ]_vars

\* The countdown of a later round has just started from the waiting loop.
C3_Witness ==
  /\ isCountingDown /\ countdownSeconds = COUNTDOWN_SECONDS
  /\ restartTimer = "dead" /\ gameTimer = "dead"
  /\ SentIn(ui, "log") = {} /\ SentIn(ui, "countdown-update") # {}

\* A step in which some player's handlePlayerJoined runs to its end.
JoinCompletes == \E p \in Players : joinPc[p] # "idle" /\ joinPc'[p] = "idle"

\* C4: a join that completes during the countdown puts the counter back to
\* COUNTDOWN_SECONDS and leaves exactly one interval pending, the one the
\* field refers to; the manager stays in the countdown.
C4_JoinResetsCountdown ==
  [][ (isCountingDown /\ JoinCompletes) =>
        /\ isCountingDown' /\ ~gameActive' /\ ~isWaitingForPlayers'
        /\ countdownSeconds' = COUNTDOWN_SECONDS
        /\ countdownTimer' = "pending"
        /\ countdownIntervals' = 1
        /\ \E i \in SentIn(ui', "countdown-update") :
             ui'[i].seconds = COUNTDOWN_SECONDS /\ ui'[i].show /\ ui'[i].to = connected'
    ]_vars

\* A join has just restarted a countdown that had already ticked.
C4_Witness ==
  /\ isCountingDown /\ countdownSeconds = COUNTDOWN_SECONDS
  /\ SentIn(ui, "log") # {}
  /\ \E i \in SentIn(ui, "countdown-update") :
       ui[i].seconds < COUNTDOWN_SECONDS /\ Cardinality(ui[i].to) = 1

\* C5: the counter changes only by one downwards or back to
\* COUNTDOWN_SECONDS; every decrement is broadcast; the decrement to 0 enters
\* Active and cancels the interval, any other one stays in the countdown;
\* the counter is never below 0, and a countdown-update with show = true is
\* sent only in the countdown or by the tick that ends it.
C5_CountdownTicks ==
  [][ /\ countdownSeconds' \in {countdownSeconds, countdownSeconds - 1, COUNTDOWN_SECONDS}
      /\ countdownSeconds' >= 0
      /\ (countdownSeconds' = countdownSeconds - 1) =>
           /\ isCountingDown /\ countdownIntervals = 1
           /\ \E i \in SentIn(ui', "countdown-update") :
                ui'[i].seconds = countdownSeconds' /\ ui'[i].show /\ ui'[i].to = connected'
           /\ IF countdownSeconds' = 0
                THEN /\ ~gameActive /\ gameActive' /\ ~isCountingDown'
                     /\ countdownIntervals' = 0 /\ countdownTimer' = "dead"
                ELSE /\ isCountingDown' /\ ~gameActive'
                     /\ countdownIntervals' = 1
      /\ \A i \in SentIn(ui', "countdown-update") :
           ui'[i].show => (isCountingDown' \/ (isCountingDown /\ countdownSeconds' = 0))
    ]_vars

\* The tick to 0 has just started the match.
C5_Witness ==
  /\ gameActive /\ countdownSeconds = 0 /\ countdownIntervals = 0
  /\ \E i \in SentIn(ui, "countdown-update") : ui[i].seconds = 0 /\ ui[i].show

\* C6: a running match is ended only by the step in which its match-end
\* timeout fires (no join, leave, kill, death or empty world ends it), that
\* timeout stays pending for as long as the match runs, its firing ends the
\* match, and so every running match is eventually over.
C6_ActiveUntilTimer ==
  /\ [][ /\ (gameActive /\ ~gameActive') =>
              (gameTimer = "pending" /\ gameTimer' = "dead" /\ gameTimers' = gameTimers - 1)
         /\ (gameTimers' < gameTimers) => (gameActive /\ ~gameActive')
       ]_vars
  /\ [](gameActive => (gameTimer = "pending" /\ gameTimers = 1))
  /\ (gameActive ~> ~gameActive)

\* The timeout has ended a match that had kills and that every player had
\* left while it was running.
C6_Witness ==
  /\ ~gameActive /\ gameTimer = "dead" /\ restartTimer = "pending"
  /\ connected = {} /\ killCounter # <<>> /\ playerCount = 0

\* C7 (as amended): the kill counter is cleared by the step that enters
\* Active, not by the expiry of the match: a step that ends outside Active
\* leaves the counter as it was, so between two rounds it holds the ended
\* round's counts, and every leaderboard-sync carries the current counter.
C7_CounterClearedAtStart ==
  [][ /\ (~gameActive /\ gameActive') => killCounter' = <<>>
      /\ ~gameActive' => killCounter' = killCounter
      /\ \A i \in SentIn(ui', "leaderboard-sync") : ui'[i].killCounts = killCounter'
    ]_vars

\* A player who joined between two rounds has just been sent the ended
\* round's counts.
C7_Witness ==
  /\ ~gameActive /\ restartTimer # "none" /\ killCounter # <<>>
  /\ \E i \in SentIn(ui, "leaderboard-sync") :
       ui[i].killCounts # <<>> /\ Cardinality(ui[i].to) = 1

\* C7 as the claim states it: once a match has ended, the kill counter is
\* empty until the first kill of the next round.
C7_CounterEmptyAfterEnd == (~gameActive /\ gameStartAt # 0) => killCounter = <<>>

\* The first identity, in insertion order, whose count no other count exceeds.
FirstWithMostKills(kc) ==
  kc[CHOOSE i \in DOMAIN kc :
       /\ \A j \in DOMAIN kc : kc[j][2] <= kc[i][2]
       /\ \A j \in DOMAIN kc : j < i => kc[j][2] < kc[i][2]][1]

\* C8 (as amended): when the match ends and the first identity with the
\* highest kill count is still connected, announce-winner with that identity
\* goes once to every connected player and that identity alone gains
\* RANK_WIN_EXP; when nobody has a kill or that identity has left, nothing
\* is announced and nothing awarded.  No other step announces a winner.
C8_WinnerAnnounced ==
  [][ /\ (gameActive /\ ~gameActive') =>
           IF killCounter # <<>> /\ FirstWithMostKills(killCounter) \in connected
             THEN /\ Cardinality(SentIn(ui', "announce-winner")) = 1
                  /\ \A i \in SentIn(ui', "announce-winner") :
                       /\ ui'[i].username = FirstWithMostKills(killCounter)
                       /\ ui'[i].to = connected
                  /\ totalExp' = [totalExp EXCEPT
                                    ![FirstWithMostKills(killCounter)] = @ + RANK_WIN_EXP]
             ELSE /\ SentIn(ui', "announce-winner") = {}
                  /\ totalExp' = totalExp
      /\ SentIn(ui', "announce-winner") # {} => (gameActive /\ ~gameActive')
    ]_vars

\* A winner has just been announced for a round that ended in a tie.
C8_Witness ==
  /\ ~gameActive /\ SentIn(ui, "announce-winner") # {}
  /\ Len(killCounter) = 2 /\ killCounter[1][2] = killCounter[2][2]

\* C8 as the claim states it: whenever a match with kills ends, the first
\* identity with the highest count is announced to every connected player
\* and gains RANK_WIN_EXP.
C8_WinnerAlwaysAnnounced ==
  [][ (gameActive /\ ~gameActive' /\ killCounter # <<>>) =>
        /\ \E i \in SentIn(ui', "announce-winner") :
             /\ ui'[i].username = FirstWithMostKills(killCounter)
             /\ ui'[i].to = connected'
        /\ totalExp'[FirstWithMostKills(killCounter)] =
             totalExp[FirstWithMostKills(killCounter)] + RANK_WIN_EXP
    ]_vars

\* C9: a step that calls addKill(u) sends one leaderboard-update, with u and
\* u's count raised by exactly one (from 0 if u had none), to every connected
\* player, and leaves every other count as it was; the counter changes in no
\* other way than by the clearing at the start of a match.
C9_AddKill ==
  [][ /\ Cardinality(SentIn(ui', "leaderboard-update")) <= 1
      /\ \A i \in SentIn(ui', "leaderboard-update") :
           /\ ui'[i].killCount = KillCountOf(killCounter, ui'[i].username) + 1
           /\ KillCountOf(killCounter', ui'[i].username) = ui'[i].killCount
           /\ ui'[i].to = connected'
           /\ \A v \in Players \ {ui'[i].username} :
                KillCountOf(killCounter', v) = KillCountOf(killCounter, v)
      /\ killCounter' # killCounter =>
           \/ SentIn(ui', "leaderboard-update") # {}
           \/ (killCounter' = <<>> /\ ~gameActive /\ gameActive')
    ]_vars

\* The second kill of an identity in a round in which the other identity
\* has a kill too.
C9_Witness ==
  /\ Len(killCounter) = 2
  /\ \E i \in SentIn(ui, "leaderboard-update") :
       ui[i].killCount = MaxKills /\ KillCountOf(killCounter, ui[i].username) = MaxKills

\* C10 as the claim states it: takeDamage on a dead session, outside Active
\* or with an amount <= 0 changes neither health, shield, the dead flag nor
\* the kill counter and sends no damage-indicator.
C10_TakeDamageNoOp ==
  [][ \A p \in Players, d \in DamageAmounts, a \in Players \cup {NoPlayer} :
        (Damage(p, d, a) /\ (dead[p] \/ ~gameActive \/ d <= 0)) =>
          /\ health' = health /\ shield' = shield /\ dead' = dead
          /\ killCounter' = killCounter
          /\ SentIn(ui', "damage-indicator") = {}
    ]_vars

\* A takeDamage call that passes the guard: spawned, live, match Active.
Wounds(p, d) ==
  /\ p \in connected /\ gameActive /\ ~dead[p]
  /\ \E i \in SentIn(ui', "damage-indicator") : ui'[i].to = {p}
  /\ Hit(p, d)

\* C11 (as amended): for a live session in an Active match and an amount
\* a >= 0, takeDamage leaves shield' = max(0, s - a) and
\* health' = max(0, h - max(0, a - s)): the shield absorbs first, health
\* takes the remainder and stops at 0.  A negative amount is not rejected:
\* it is added to the shield when the shield is above 0, otherwise to health,
\* and stops at the maximum.
C11_ShieldAbsorbsFirst ==
  [][ \A p \in Players, d \in CombatDamage :
        Wounds(p, d) =>
          IF d >= 0
            THEN /\ shield'[p] = Max(0, shield[p] - d)
                 /\ health'[p] = Max(0, health[p] - Max(0, d - shield[p]))
            ELSE IF shield[p] > 0
                   THEN /\ shield'[p] = Min(MAX_SHIELD, shield[p] - d)
                        /\ health'[p] = health[p]
                   ELSE /\ shield'[p] = 0
                        /\ health'[p] = Min(MAX_HEALTH, health[p] - d)
    ]_vars

\* A hit has just gone through a shield into health, or through health
\* alone, and left one point of health.
C11_Witness ==
  \E p \in Players :
    /\ ~dead[p] /\ health[p] = 1 /\ shield[p] = 0
    /\ \E i \in SentIn(ui, "damage-indicator") : ui[i].to = {p}

\* C11 as the claim states it: for an amount a > 0, shield' = max(0, s - a)
\* and health' = h - max(0, a - s).
C11_HealthMinusRemainder ==
  [][ \A p \in Players, d \in CombatDamage :
        (Wounds(p, d) /\ d > 0) =>
          /\ shield'[p] = Max(0, shield[p] - d)
          /\ health'[p] = health[p] - Max(0, d - shield[p])
    ]_vars

\* C12: in every reachable state every session has 0 <= health <= maxHealth
\* and 0 <= shield <= maxShield.
C12_HealthShieldInRange ==
  \A p \in Players :
    /\ 0 <= health[p] /\ health[p] <= MAX_HEALTH
    /\ 0 <= shield[p] /\ shield[p] <= MAX_SHIELD

\* One session has been taken to 0 health while another holds a full shield
\* and has lost health.
C12_Witness ==
  \E p, q \in Players :
    /\ health[p] = 0 /\ dead[p]
    /\ shield[q] = MAX_SHIELD /\ health[q] = MAX_HEALTH - 1

\* The sessions that die in a step.
Dying == {p \in Players : ~dead[p] /\ dead'[p]}

C14_KillOnlyByLiveAttacker ==
  [][ \A i \in SentIn(ui', "leaderboard-update") : ~dead[ui'[i].username] ]_vars

\* C15: every death is followed by a respawn.  A dead session is connected
\* and has a respawn timeout pending; the firing of that timeout leaves a
\* connected session alive with full health whatever the match state is; and
\* every dead session is eventually not dead.
C15_DeathThenRespawn ==
  /\ [][ \A p \in Players :
           (respawnTimers'[p] < respawnTimers[p] /\ p \in connected') =>
             (~dead'[p] /\ health'[p] = MAX_HEALTH)
       ]_vars
  /\ [](\A p \in Players : dead[p] => (p \in connected /\ respawnTimers[p] >= 1))
  /\ \A p \in Players : dead[p] ~> ~dead[p]

\* A session killed during a match has respawned after the match ended.
C15_Witness ==
  \E p \in Players :
    /\ p \in connected /\ ~dead[p] /\ health[p] = MAX_HEALTH /\ respawnTimers[p] = 0
    /\ ~gameActive /\ gameTimer = "dead" /\ killCounter # <<>>
    /\ ui = <<>> /\ restartTimer = "pending" /\ isWaitingForPlayers

\* C16 as the claim states it: after respawn() the session is not dead, its
\* health is maxHealth and its shield is maxShield.
C16_RespawnRestoresAll ==
  [][ \A p \in Players :
        (dead[p] /\ ~dead'[p] /\ p \in connected') =>
          (health'[p] = MAX_HEALTH /\ shield'[p] = MAX_SHIELD)
    ]_vars

\* C17 as the claim states it: for the inventory and the active slot of a
\* session in the world, whatever they are, the slot that _findInventorySlot
\* yields for the next addItemToInventory is not slot 0.
C17_NeverSlotZero ==
  \A p \in connected : FindInventorySlot(InvCur, p) # 0

\* A step of the drop key for a live session in the world.
Drops(p) ==
  /\ p \in connected /\ ~dead[p]
  /\ DropRequest(p)

C19_SlotZeroKeepsPickaxe ==
  \A p \in connected : Slot(inventory[p], 0) = "pickaxe"

\* C20 as the claim states it: once the starting gun is in slot 1 of a session
\* it is in slot 1 after every step, whether a drop request (also with slot 1
\* active), a death or an addItemToInventory that replaces the active slot.
C20_GunStaysInSlotOne ==
  [][\A p \in InvPlayers :
       Slot(inventory[p], 1) = "gun" => Slot(inventory'[p], 1) = "gun"]_vars

\* The calls of setPersistedData for p in an outbox.
SavesIn(out, p) == {i \in SentIn(out, "set-persisted-data") : out[i].to = {p}}

\* A step that is a call of addExp(exp) on p.
Gains(p, exp) ==
  /\ p \in connected /\ totalExp'[p] = totalExp[p] + exp
  /\ GainExp(p, exp)

\* C21: addExp saves exactly once when the experience gained since the last
\* save reaches RANK_SAVE_INTERVAL_EXP with this call, and not at all when it
\* does not; no step saves twice or saves without such a gain; and in every
\* state the unsaved amount totalExp - lastExpSave is below the interval.
C21_SaveOncePerInterval ==
  /\ [](\A p \in Players : totalExp[p] - lastExpSave[p] < RANK_SAVE_INTERVAL_EXP)
  /\ [][\A p \in Players :
          /\ Cardinality(SavesIn(ui', p)) <= 1
          /\ SavesIn(ui', p) # {} =>
               /\ totalExp'[p] > totalExp[p]
               /\ totalExp'[p] - lastExpSave[p] >= RANK_SAVE_INTERVAL_EXP
          /\ \A exp \in ExpAwards : Gains(p, exp) =>
               IF totalExp[p] + exp - lastExpSave[p] >= RANK_SAVE_INTERVAL_EXP
                 THEN /\ Cardinality(SavesIn(ui', p)) = 1
                      /\ persisted'[p] = <<totalExp[p] + exp>>
                      /\ lastExpSave'[p] = totalExp[p] + exp
                 ELSE /\ SavesIn(ui', p) = {}
                      /\ persisted'[p] = persisted[p]
                      /\ lastExpSave'[p] = lastExpSave[p]
     ]_vars

\* Small awards have taken a session from 0 past the first threshold to
\* RANK_SAVE_INTERVAL_EXP + 1, and the last of them has saved that total.
C21_Witness ==
  \E p \in Players :
    /\ p \in connected
    /\ totalExp[p] = RANK_SAVE_INTERVAL_EXP + 1
    /\ lastExpSave[p] = totalExp[p] /\ persisted[p] = <<totalExp[p]>>
    /\ ui = <<[type |-> "set-persisted-data", to |-> {p}, totalExp |-> totalExp[p]]>>

\* C22 as the claim states it: while a session lasts (the player is in the
\* world before and after the step), no step lowers its total experience,
\* the completion of loadPersistedData included.
C22_ExpNeverDecreases ==
  [][\A p \in Players :
       (p \in connected /\ p \in connected') => totalExp'[p] >= totalExp[p]]_vars

\* The ranks whose threshold is at or below exp.
RanksReached(R, exp) == {i \in 0..(Len(R) - 1) : R[i + 1] <= exp}

\* C23: for ascending thresholds the rank that a call of addExp computes for
\* the new total is the largest index whose threshold is at or below the
\* total, and rank 0 when the total is below every threshold; it is a valid
\* index, and for the same table no smaller total has a larger rank.
C23_RankStepFunction ==
  [][\A p \in Players, exp \in ExpAwards : Gains(p, exp) =>
       LET e == totalExp[p] + exp
           rank == rankIndex'[p]
           reached == RanksReached(ranks, e)
       IN /\ rank = TotalExpToRankIndex(ranks, e)
          /\ rank \in 0..(Len(ranks) - 1)
          /\ reached = {} => rank = 0
          /\ reached # {} => (rank \in reached /\ \A i \in reached : i <= rank)
          /\ \A below \in 0..e : TotalExpToRankIndex(ranks, below) <= rank
  ]_vars

\* Over the thresholds 0, 2, 5 a session whose total equals the second
\* threshold has rank 1, and one beyond the last threshold has the last rank.
C23_Witness ==
  /\ ranks = <<0, 2, 5>>
  /\ connected = Players
  /\ totalExp[1] = 2 /\ rankIndex[1] = 1
  /\ totalExp[2] = 7 /\ rankIndex[2] = 2

\* The step fires a shot: super.shoot() runs.
ShotFired == SentIn(ui', "shoot") # {}

\* C24: a shot is accepted only in a fire request, only while no reload is in
\* progress and only when the gun has not fired before or at least
\* 1000 / fireRate ms have passed since the last accepted shot, whose time is
\* what _customLastFireTime holds; a request rejected because of a reload in
\* progress or of the time since the last shot changes nothing of the gun,
\* and no later step fires in its place.
C24_FireCooldown ==
  [][/\ ShotFired =>
          /\ FireRequest
          /\ ~gun.customReloading
          /\ gun.customLastFireTime = 0
               \/ (clock - gun.customLastFireTime) * FIRE_RATE >= 1000
          /\ gun'.customLastFireTime = clock
     /\ ~ShotFired => gun'.customLastFireTime = gun.customLastFireTime
     /\ (/\ FireRequest
         /\ \/ gun.customReloading
            \/ /\ gun.customLastFireTime # 0
               /\ (clock - gun.customLastFireTime) * FIRE_RATE < 1000)
          => (~ShotFired /\ gun' = gun)
  ]_vars

\* A second shot has been accepted 67 ms after the first.
C24_Witness ==
  /\ gun.customLastFireTime = clock /\ gun.ammo = MaxAmmo - 2
  /\ ui = <<[type |-> "shoot", to |-> {}, at |-> clock]>>
  /\ clock = 1 + 33 + 34

\* The gun is past the tests of processShoot for a reload in progress and
\* for the time since the last shot.
PastCooldown ==
  /\ ~gun.customReloading
  /\ gun.customLastFireTime = 0
       \/ (clock - gun.customLastFireTime) * FIRE_RATE >= 1000

\* C25, amended: the clip stays within 0..maxAmmo; an accepted shot takes
\* exactly one round; a fire request on an empty clip never fires, and it
\* starts a reload when it is past the tests for a reload in progress and
\* for the time since the last shot (a request that comes sooner after the
\* last shot is rejected and starts nothing); while a reload is in progress
\* the clip is empty and exactly one timeout is pending; the timeout clears
\* the flag and refills the clip to maxAmmo in one step if the gun is still
\* spawned, and leaves the clip alone if not; no other step adds rounds; and
\* every reload in progress ends.
C25_ClipAndReload ==
  /\ [](/\ gun.ammo \in 0..MaxAmmo
        /\ gun.finishTimers \in 0..1
        /\ gun.customReloading => (gun.ammo = 0 /\ gun.finishTimers = 1))
  /\ [][/\ ShotFired => gun'.ammo = gun.ammo - 1
        /\ (FireRequest /\ gun.ammo = 0) =>
             /\ ~ShotFired /\ gun'.ammo = 0
             /\ PastCooldown => (gun'.customReloading /\ gun'.finishTimers = 1)
             /\ ~PastCooldown => gun' = gun
        /\ FinishReloadTimerFire =>
             /\ ~gun'.customReloading
             /\ gun'.ammo = IF gun.isSpawned /\ gun.customReloading
                              THEN MaxAmmo ELSE gun.ammo
        /\ gun'.ammo > gun.ammo => FinishReloadTimerFire
     ]_vars
  /\ gun.customReloading ~> ~gun.customReloading

\* The clip has been emptied, reloaded and refilled by the timeout.
C25_Witness ==
  /\ gun.isSpawned /\ gun.ammo = MaxAmmo /\ gun.customLastFireTime # 0
  /\ ~gun.customReloading /\ gun.finishTimers = 0
  /\ ui = <<>>

\* C25 as the claim states it: a fire request on an empty clip with no
\* reload in progress starts a reload.
C25_EmptyClipStartsReload ==
  [][(FireRequest /\ gun.ammo = 0 /\ ~gun.customReloading)
        => gun'.customReloading]_vars

\* A step in which the simulation or the event loop calls back into the
\* projectile.
ProjectileCallback ==
  \/ \E started \in BOOLEAN, e \in Players \cup {AProjectile, AnItem},
        d \in ImpactDistances : EntityCollision(started, e, d)
  \/ \E started \in BOOLEAN, contact \in BOOLEAN : BlockCollision(started, contact)
  \/ LifeTimerFire

\* C26: a projectile is despawned exactly once and applies damage at most
\* once, whatever collisions and timeouts are delivered for it and in
\* whatever order: while spawned it has not been despawned, once despawned
\* it has been despawned once, and a callback that finds it despawned changes
\* neither the projectile nor any session and sends nothing.
C26_DespawnedOnce ==
  /\ [](projectile.hits <= 1)
  /\ [](projectile.isSpawned => projectile.despawns = 0 /\ projectile.hits = 0)
  /\ [](projectile.id > 0 /\ ~projectile.isSpawned => projectile.despawns = 1)
  /\ [][(projectile.id > 0 /\ ~projectile.isSpawned /\ ProjectileCallback)
          => /\ projectile' = projectile
             /\ UNCHANGED <<health, shield, dead, killCounter, totalExp>>
             /\ ui' = <<>>]_vars

\* A despawned projectile that applied its damage to a player receives a
\* further entity collision.
C26_Witness ==
  /\ projectile.id > 0 /\ ~projectile.isSpawned
  /\ projectile.hits = 1 /\ projectile.despawns = 1
  /\ \E p \in Players : health[p] < MAX_HEALTH /\ p # projectile.shooter
  /\ ui = <<>>

\* C27: every spawned projectile is eventually despawned.  The lifetime
\* timeout despawns a projectile that is still spawned, and not before
\* PROJECTILE_LIFETIME_MS have passed since the spawn; a despawned
\* projectile has no timeout pending and no handle left; and a projectile
\* ends only in a collision callback or in the timeout.
C27_EventuallyDespawned ==
  /\ projectile.isSpawned ~> ~projectile.isSpawned
  /\ [](projectile.isSpawned => projectile.lifeTimeout /\ projectile.lifeTimers = 1)
  /\ [](~projectile.isSpawned => ~projectile.lifeTimeout /\ projectile.lifeTimers = 0)
  /\ [][(projectile.isSpawned /\ LifeTimerFire)
          => /\ projectile.elapsed >= PROJECTILE_LIFETIME_MS
             /\ ~projectile'.isSpawned]_vars
  /\ [][(projectile.isSpawned /\ ~projectile'.isSpawned) => ProjectileCallback]_vars

\* A projectile that nothing hit has been despawned by its timeout, the
\* lifetime after the spawn.
C27_Witness ==
  /\ projectile.id > 0 /\ ~projectile.isSpawned /\ projectile.despawns = 1
  /\ projectile.elapsed = PROJECTILE_LIFETIME_MS
  /\ projectile.lifeTimers = 0

\* A step that changes no session's combat fields, sends nothing and leaves
\* the projectile flying or ended as it was, with the damage it has applied.
NothingHit ==
  /\ UNCHANGED <<health, shield, dead, killCounter, totalExp>>
  /\ ui' = <<>>
  /\ projectile'.isSpawned = projectile.isSpawned
  /\ projectile'.hits = projectile.hits

\* A collision with the projectile's shooter or with another projectile.
IgnoredCollision ==
  /\ projectile.id > 0
  /\ \E started \in BOOLEAN, e \in {projectile.shooter, AProjectile},
        d \in ImpactDistances : EntityCollision(started, e, d)

\* A step that changes a session's health, shield or dead flag, or counts a
\* hit of the projectile.
SomethingHit ==
  \/ health' # health
  \/ shield' # shield
  \/ dead' # dead
  \/ projectile'.hits # projectile.hits

\* C28: a collision with the shooter or with another projectile is ignored:
\* no health, shield, death, kill or experience changes, nothing is sent (no
\* show-damage), and the projectile flies on.  No callback of a projectile
\* changes its shooter's health or shield, and the sessions a callback
\* changes are those of connected players that were alive.
C28_ShooterAndProjectilesIgnored ==
  /\ [][NothingHit \/ ~IgnoredCollision]_vars
  /\ [][(SomethingHit /\ projectile.id > 0 /\ ProjectileCallback)
          => /\ health'[projectile.shooter] = health[projectile.shooter]
             /\ shield'[projectile.shooter] = shield[projectile.shooter]
             /\ \A p \in Players :
                  (health'[p] # health[p] \/ shield'[p] # shield[p] \/ dead'[p] # dead[p])
                    => p \in connected /\ ~dead[p]
             /\ (projectile'.hits # projectile.hits)
                  => \E p \in connected \ {projectile.shooter} : ~dead[p]]_vars

\* A spawned projectile has gone through its shooter or another projectile
\* while the match runs and its shooter is alive, and is still flying.
C28_Witness ==
  /\ projectile.isSpawned /\ projectile.ignored
  /\ gameActive /\ ~dead[projectile.shooter]
  /\ projectile.initialDamage > 0

\* The damage the show-damage messages of an outbox announce.
ShownDamage(out) == {out[i].damage : i \in {j \in DOMAIN out : out[j].type = "show-damage"}}

\* round(MIN_DAMAGE_MULTIPLIER x baseDamage).
MinDamage(baseDamage) ==
  MathRound(baseDamage * MIN_DAMAGE_MULTIPLIER_NUM, MIN_DAMAGE_MULTIPLIER_DEN)

\* C29: the damage multiplier is 1 up to FULL_DAMAGE_RANGE, exactly
\* MIN_DAMAGE_MULTIPLIER from MIN_DAMAGE_RANGE on, and falls by the same
\* positive amount with every step of distance in between; the final damage
\* of the projectile's initial damage never grows with the distance and lies
\* between round(MIN_DAMAGE_MULTIPLIER x initial damage) and the initial
\* damage; and the damage a hit announces and applies is that final damage
\* at one of the distances.
C29_DamageFalloff ==
  /\ [](\A d \in Distances :
          /\ d <= FULL_DAMAGE_RANGE * DistScale => DamageMultiplier(d) = MultiplierDen
          /\ d >= MIN_DAMAGE_RANGE * DistScale
               => DamageMultiplier(d) * MIN_DAMAGE_MULTIPLIER_DEN
                    = MIN_DAMAGE_MULTIPLIER_NUM * MultiplierDen
          /\ (d >= FULL_DAMAGE_RANGE * DistScale /\ d < MIN_DAMAGE_RANGE * DistScale)
               => /\ DamageMultiplier(d + 1) < DamageMultiplier(d)
                  /\ DamageMultiplier(d) - DamageMultiplier(d + 1)
                       = MIN_DAMAGE_MULTIPLIER_DEN - MIN_DAMAGE_MULTIPLIER_NUM
          /\ d < MaxDistance
               => FinalDamage(projectile.initialDamage, d + 1)
                    <= FinalDamage(projectile.initialDamage, d)
          /\ FinalDamage(projectile.initialDamage, d) <= projectile.initialDamage
          /\ FinalDamage(projectile.initialDamage, d) >= MinDamage(projectile.initialDamage))
  /\ [][projectile'.hits # projectile.hits
          => /\ ShownDamage(ui') \subseteq
                  {FinalDamage(projectile.initialDamage, d) : d \in ImpactDistances}
             /\ \A damage \in ShownDamage(ui') :
                  /\ damage >= MinDamage(projectile.initialDamage)
                  /\ damage <= projectile.initialDamage
                  /\ \A p \in Players :
                       (health'[p] # health[p] /\ shield[p] = 0)
                         => health'[p] = Max(0, health[p] - damage)]_vars

\* A hit in the drop-off region: the damage announced is less than the
\* initial damage and more than the least damage.
C29_Witness ==
  /\ projectile.hits = 1 /\ projectile.initialDamage > 0
  /\ \E damage \in ShownDamage(ui) :
       /\ damage < projectile.initialDamage
       /\ damage > MinDamage(projectile.initialDamage)

\* A pickaxe hit on a block below y = 0 (with or without an entity hit).
FloorHit ==
  \E p \in Players, hitBlock \in {c \in Coords : c[2] < 0},
     hitEntity \in Players \cup {NoPlayer} : PickaxeAttack(p, hitBlock, hitEntity)

\* A pickaxe hit on a block at y >= 0 (with or without an entity hit).
BlockHit ==
  \E p \in Players, hitBlock \in {c \in Coords : c[2] >= 0},
     hitEntity \in Players \cup {NoPlayer} : PickaxeAttack(p, hitBlock, hitEntity)

\* The step played the sound of a hit on a block at y >= 0.
BlockAudioPlayed ==
  \E i \in DOMAIN ui' : ui'[i].type = "hit-audio" /\ ui'[i].site = "block"

\* C30: a pickaxe hit on a block below y = 0 leaves the lattice as it is and
\* changes no session's health, shield or dead flag; every bedrock block
\* placed at y = -1 is in place in every state; and a step that changes the
\* lattice sets exactly one block, one at y >= 0 that was not air, to air,
\* which is what every hit on such a block does.
C30_BedrockStays ==
  /\ [](\A c \in Coords : c[2] = 0 - 1 => blocks[c] = BEDROCK_BLOCK_ID)
  /\ [][(blocks' = blocks /\ UNCHANGED <<health, shield, dead, killCounter>>)
          \/ ~FloorHit]_vars
  /\ [][blocks' # blocks
          => \E c \in Coords :
               /\ c[2] >= 0 /\ blocks[c] # AIR_BLOCK_ID
               /\ blocks' = [blocks EXCEPT ![c] = AIR_BLOCK_ID]]_vars
  /\ [][(blocks' = blocks /\ BlockAudioPlayed) => ~BlockHit]_vars
  /\ [][\A p \in Players, hitBlock \in {c \in Coords : c[2] >= 0},
           hitEntity \in Players \cup {NoPlayer} :
          (blocks' # blocks /\ PickaxeAttack(p, hitBlock, hitEntity))
            => blocks'[hitBlock] = AIR_BLOCK_ID]_vars

\* The bedrock was just hit while the match runs, after a block above it was
\* removed.
C30_Witness ==
  /\ gameActive
  /\ ui = <<[type |-> "hit-audio", to |-> {}, site |-> "floor"]>>
  /\ \E c \in Coords : c[2] = 0 /\ blocks[c] = AIR_BLOCK_ID
  /\ \E c \in Coords : c[2] = 0 /\ blocks[c] # AIR_BLOCK_ID

\* The messages of a step that carry match state to player p.
SyncsTo(out, p) ==
  {i \in DOMAIN out : out[i].type \in {"timer-sync", "leaderboard-sync"} /\ p \in out[i].to}

AnnouncementsTo(out, p) ==
  {i \in DOMAIN out : out[i].type = "game-start-announcement" /\ p \in out[i].to}

\* C31 as the claim states it: timer-sync and leaderboard-sync go to a player
\* only once its join is past `await playerEntity.spawn(...)`, that is with
\* its avatar spawned and its UI loaded, and a game-start announcement goes to
\* a player only after the syncs of its join, also when the countdown expires
\* while the join is still waiting.
C31_SyncAfterUILoad ==
  [][\A p \in Players :
       joinPc'[p] = "awaitUI"
         => SyncsTo(ui', p) = {} /\ AnnouncementsTo(ui', p) = {}]_vars

\* ------------------------------------------------------- leave slice
\* Joins, the start of a match, kills and respawns, and leaves that keep the
\* despawned entity with the timeouts it had scheduled.  A player leaves
\* again once the timeouts of the entity it left before have fired.
DepartedCommit(s, d) ==
  \E v \in {s} :
    /\ SessionCommit(v)
    /\ departed' = d
    /\ UNCHANGED <<gun, clock, projectile, blocks, gameTimerDue, position>>

\* PlayerEvent.LEFT_WORLD: the entity is despawned where it stands, with its
\* respawn timeouts and, once spawn has started them, one timeout of each
\* ticker pending.
LeftWorldDespawn(p, pos) ==
  /\ p \in connected
  /\ PendingTimeouts(departed[p]) = 0
  /\ LET s1 == NewEntity([Cur EXCEPT !.connected = @ \ {p}], p)
         tickers == IF joinPc[p] = "awaitUI" THEN 0 ELSE 1
         e == [isSpawned |-> FALSE, dead |-> dead[p], health |-> health[p],
               shield |-> shield[p], activeSlot |-> activeSlot[p], position |-> pos,
               gunGrants |-> 0, respawnTimers |-> respawnTimers[p],
               healTimers |-> tickers, outTimers |-> tickers]
     IN DepartedCommit(UpdatePlayerCountUI([s1 EXCEPT !.playerCount = @ - 1]),
                       [departed EXCEPT ![p] = e])

\* The UI load of a player that has left completes: the rest of spawn runs on
\* the despawned entity and starts its tickers, then the join runs to its end.
DespawnedUILoaded(p) ==
  /\ joinPc[p] = "awaitUI"
  /\ p \notin connected
  /\ LET s2 == SyncLeaderboard(SyncTimer(Cur, {p}), {p})
         s3 == IF s2.gameActive
                 THEN SendGameStartAnnouncements(s2, {p})
                 ELSE IF s2.isCountingDown
                        THEN Send(s2, [type |-> "countdown-update", to |-> {p},
                                       seconds |-> s2.countdownSeconds, show |-> TRUE])
                        ELSE s2
     IN DepartedCommit(JoinTail(s3, p),
                       [departed EXCEPT ![p].activeSlot = 0,
                                        ![p].healTimers = @ + 1,
                                        ![p].outTimers = @ + 1])

\* The 5 s timeout of checkDeath firing on a despawned entity.
DespawnedRespawnFire(p) ==
  /\ departed[p].respawnTimers > 0
  /\ DepartedCommit(Cur, [departed EXCEPT
                            ![p] = EntityRespawn([@ EXCEPT !.respawnTimers = @ - 1])])

\* The 2 s timeout of _autoHealTicker firing on a despawned entity.
DespawnedAutoHealFire(p) ==
  /\ departed[p].healTimers > 0
  /\ DepartedCommit(Cur, [departed EXCEPT
                            ![p] = AutoHealTimeout([@ EXCEPT !.healTimers = @ - 1])])

\* The 3 s timeout of _outOfWorldTicker firing on a despawned entity.
DespawnedOutOfWorldFire(p) ==
  /\ departed[p].outTimers > 0
  /\ DepartedCommit(Cur, [departed EXCEPT
                            ![p] = OutOfWorldTimeout([@ EXCEPT !.outTimers = @ - 1],
                                                     gameActive)])

\* The UI load of a player in the world completes.
SpawnedUILoaded(p) == p \in connected /\ UILoaded(p)

NextLeave ==
  \/ \E p \in Players : JoinedWorld(p)
  \/ \E p \in Players : SpawnedUILoaded(p)
  \/ \E p \in Players : DataLoaded(p)
  \/ \E p \in Players, pos \in Positions : LeftWorldDespawn(p, pos)
  \/ \E p \in Players : DespawnedUILoaded(p)
  \/ PollTick
  \/ CountdownTick
  \/ \E p \in Players : LethalHit(p)
  \/ \E p \in Players : RespawnTimerFire(p)
  \/ \E p \in Players : DespawnedRespawnFire(p)
  \/ \E p \in Players : DespawnedAutoHealFire(p)
  \/ \E p \in Players : DespawnedOutOfWorldFire(p)

SpecLeave == Init /\ [][NextLeave]_vars

\* The entity that player p left is still the one of the state before.
SameDeparture(p) == ~(p \in connected /\ p \notin connected')

\* A timeout of the entity that player p left has fired.
DespawnedTimeoutFired(p) ==
  PendingTimeouts(departed'[p]) < PendingTimeouts(departed[p])

\* C32: once a player has left and its entity is despawned, no step changes
\* the dead flag, health, shield, active slot or position of that entity or
\* grants it a gun, no timeout that fires sets a timeout again (the tickers
\* are started once more only by a spawn that was still waiting for the UI
\* when the player left), and a timeout of it that fires changes nothing but
\* the count of pending timeouts: neither the match nor the session the
\* player has joined since.
C32_DepartedTimersInert ==
  /\ [][\A p \in Players :
          (SameDeparture(p) /\ departed[p] # NoEntity)
            => /\ departed'[p].isSpawned = FALSE
               /\ departed'[p].dead = departed[p].dead
               /\ departed'[p].health = departed[p].health
               /\ departed'[p].shield = departed[p].shield
               /\ departed'[p].position = departed[p].position
               /\ departed'[p].gunGrants = departed[p].gunGrants
               /\ departed'[p].respawnTimers <= departed[p].respawnTimers]_vars
  /\ [][\A p \in Players :
          (SameDeparture(p) /\ departed[p] # NoEntity /\ joinPc[p] # "awaitUI")
            => /\ departed'[p].activeSlot = departed[p].activeSlot
               /\ departed'[p].healTimers <= departed[p].healTimers
               /\ departed'[p].outTimers <= departed[p].outTimers]_vars
  /\ [][(\E p \in Players : DespawnedTimeoutFired(p))
          => UNCHANGED <<gameActive, isWaitingForPlayers, isCountingDown, playerCount,
                         killCounter, connected, joinPc, health, shield, dead,
                         totalExp, respawnTimers, inventory, activeSlot, pendingGuns>>]_vars

\* A player killed in a running match has left below the world with its
\* respawn timeout pending and has joined again; the timeout has since fired
\* and the despawned entity is still dead where it was.
C32_Witness ==
  \E p \in Players :
    /\ p \in connected /\ joinPc[p] = "idle" /\ gameActive
    /\ departed[p].dead /\ departed[p].health = 0 /\ departed[p].position = "below"
    /\ PendingTimeouts(departed[p]) = 0

\* ------------------------------------------------------- timer slice
\* The match cycle on the server's clock: Date.now() is read from clock, and
\* the match-end timeout is due GAME_DURATION_MS after it was set and fires
\* no earlier.  The other timers fire at any time.
MaxDate == 8

TimerCommit(s, due) ==
  \E v \in {s} :
    /\ SessionCommit(v)
    /\ gameTimerDue' = due
    /\ UNCHANGED <<gun, clock, projectile, blocks, departed, position>>

\* One tick of a pending countdown interval; the tick that starts the match
\* sets the match-end timeout.
CountdownTickAt ==
  /\ countdownIntervals > 0
  /\ LET s1 == CountdownBody(Cur, clock)
     IN TimerCommit(s1, IF s1.gameTimers > gameTimers
                          THEN clock + GAME_DURATION_MS
                          ELSE gameTimerDue)

\* The match-end timeout fires once it is due.
GameTimerFireAt ==
  /\ clock >= gameTimerDue
  /\ GameTimerFire

TimePasses ==
  /\ clock < MaxDate
  /\ clock' = clock + 1
  /\ \E v \in {Cur} : SessionCommit(v)
  /\ UNCHANGED <<gun, projectile, blocks, departed, gameTimerDue, position>>

NextTimer ==
  \/ \E p \in Players : JoinedWorld(p)
  \/ \E p \in Players : UILoaded(p)
  \/ \E p \in Players : DataLoaded(p)
  \/ \E p \in Players : LeftWorld(p)
  \/ PollTick
  \/ RestartTimerFire
  \/ CountdownTickAt
  \/ GameTimerFireAt
  \/ TimePasses

SpecTimer == Init /\ [][NextTimer]_vars

\* C33: the step that enters Active sends exactly one timer-sync, to every
\* connected player, with startedAt the time of the step and endsAt =
\* startedAt + GAME_DURATION_MS, the time the match-end timeout set in that
\* step is due; the timeout of the running match never fires before endsAt;
\* and every timer-sync of every step carries the start time of the manager
\* and endsAt = startedAt + GAME_DURATION_MS.
C33_TimerSync ==
  /\ [][(~gameActive /\ gameActive')
          => /\ Cardinality(SentIn(ui', "timer-sync")) = 1
             /\ \A i \in SentIn(ui', "timer-sync") :
                  /\ ui'[i].to = connected'
                  /\ ui'[i].startedAt = clock
                  /\ ui'[i].endsAt = clock + GAME_DURATION_MS
                  /\ ui'[i].endsAt = gameTimerDue'
             /\ gameTimer' = "pending" /\ gameTimers' = gameTimers + 1]_vars
  /\ [][(gameActive /\ ~gameActive' /\ gameTimers' < gameTimers)
          => clock >= gameStartAt + GAME_DURATION_MS]_vars
  /\ [](\A i \in Sent("timer-sync") :
          /\ ui[i].startedAt = gameStartAt
          /\ ui[i].endsAt = ui[i].startedAt + GAME_DURATION_MS)

\* The second match has just started, later than the first, and its
\* timer-sync carries the new start time.
C33_Witness ==
  /\ gameActive /\ restartTimer = "dead" /\ clock = MaxDate - 1
  /\ \E i \in Sent("timer-sync") :
       ui[i].startedAt = clock /\ ui[i].endsAt = gameTimerDue /\ ui[i].to = Players
  /\ Sent("game-start-announcement") # {}

\* A join has run to its end in this step.
JoinCompleted == \E p \in Players : joinPc[p] # "idle" /\ joinPc'[p] = "idle"

BelowMinimum == Cardinality(connected) < MINIMUM_PLAYERS_TO_START

\* C34: a join that completes with none of the three phase flags set runs the
\* wait-for-players check, which sets the waiting flag and a poll timeout or
\* starts the countdown; a poll timeout is set only by such a join, by the
\* restart timeout or by a poll tick, and always with the manager waiting and
\* fewer than the minimum connected; a poll tick sets the next timeout exactly
\* when the manager is still waiting and below the minimum, and starts the
\* countdown otherwise; at most one poll timeout is pending, and one is
\* pending only while the manager waits, so no tick fires after the manager
\* has left WaitingForPlayers.
C34_WaitPoll ==
  /\ [](pollTimers <= 1)
  /\ [](pollTimers > 0 => isWaitingForPlayers /\ ~isCountingDown /\ ~gameActive)
  /\ [][(JoinCompleted /\ ~gameActive /\ ~isCountingDown /\ ~isWaitingForPlayers)
          => \/ isWaitingForPlayers' /\ pollTimers' = pollTimers + 1
             \/ isCountingDown' /\ ~isWaitingForPlayers' /\ pollTimers' = pollTimers]_vars
  /\ [][pollTimers' > pollTimers
          => /\ isWaitingForPlayers' /\ BelowMinimum'
             /\ \/ JoinCompleted /\ ~gameActive /\ ~isCountingDown /\ ~isWaitingForPlayers
                \/ restartTimers' < restartTimers]_vars
  /\ [][(pollTimers > 0 /\ pollTimers' = pollTimers /\ PollTick)
          => isWaitingForPlayers' /\ BelowMinimum]_vars
  /\ [][pollTimers' < pollTimers
          => ~BelowMinimum /\ isCountingDown' /\ ~isWaitingForPlayers']_vars

\* A poll tick has found one player connected and has set the next timeout.
C34_Witness ==
  /\ pollTimers = 1 /\ isWaitingForPlayers /\ ui = <<>>
  /\ Cardinality(connected) = 1 /\ \A p \in Players : joinPc[p] = "idle"
  /\ playerCount = 1 /\ gameStartAt > 0

\* The event loop fires every timeout and interval of the manager that stays
\* pending.
FairCycle ==
  /\ Init /\ [][NextMatch]_vars
  /\ WF_vars(GameTimerFire) /\ WF_vars(RestartTimerFire)
  /\ WF_vars(PollTick) /\ WF_vars(CountdownTick)

JoinInProgress == \E p \in Players : joinPc[p] # "idle"

MatchEnded == ~gameActive /\ restartTimer = "pending"

\* The manager has a timer pending for the phase it is in.
CycleGoesOn ==
  \/ gameActive /\ gameTimers > 0
  \/ isCountingDown /\ countdownIntervals > 0
  \/ isWaitingForPlayers /\ pollTimers + restartTimers > 0

\* C35: the step that ends a match leaves the manager waiting with exactly
\* one restart timeout pending; the restart timeout runs the wait-for-players
\* check, which starts the countdown or sets the poll timeout; with players
\* connected and no join in progress the manager always has a timer pending
\* for its phase; and after a match has ended a countdown and then a running
\* match follow, unless fewer than the minimum stay connected or a further
\* join comes in.
C35_CycleGoesOn ==
  /\ [][(gameActive /\ ~gameActive')
          => /\ isWaitingForPlayers' /\ ~isCountingDown'
             /\ restartTimer' = "pending" /\ restartTimers' = 1]_vars
  /\ [][restartTimers' < restartTimers
          => \/ ~BelowMinimum /\ isCountingDown' /\ ~isWaitingForPlayers'
             \/ BelowMinimum /\ isWaitingForPlayers' /\ pollTimers' = pollTimers + 1]_vars
  /\ []((connected # {} /\ ~JoinInProgress) => CycleGoesOn)
  /\ (MatchEnded ~> (isCountingDown \/ BelowMinimum \/ JoinInProgress))
  /\ (isCountingDown ~> (gameActive \/ JoinInProgress))

\* The next match has just started with the minimum connected, after the
\* restart timeout of the match before has fired.
C35_Witness ==
  /\ gameActive /\ restartTimer = "dead" /\ restartTimers = 0 /\ pollTimers = 0
  /\ gameTimers = 1 /\ ~BelowMinimum /\ ~JoinInProgress
  /\ Sent("game-start-announcement") # {}

\* C36 as the claim states it: every step that enters Active has at least
\* MINIMUM_PLAYERS_TO_START players connected, also when players have left
\* during the countdown.
C36_StartsWithMinimum ==
  [][(~gameActive /\ gameActive')
       => Cardinality(connected') >= MINIMUM_PLAYERS_TO_START]_vars

\* C37 as the claim states it: _playerCount is never negative, and whenever
\* no handlePlayerJoined is suspended at an await it is the number of
\* connected players.
C37_PlayerCountExact ==
  /\ playerCount >= 0
  /\ ~JoinInProgress => playerCount = Cardinality(connected)

\* C38 as the claim states it: in every state the active slot index of every
\* session is within 0 .. TOTAL_INVENTORY_SLOTS - 1 and its inventory has
\* exactly TOTAL_INVENTORY_SLOTS slots.
C38_SlotIndexInRange ==
  \A p \in Players :
    /\ activeSlot[p] \in 0..(TOTAL_INVENTORY_SLOTS - 1)
    /\ Len(inventory[p]) = TOTAL_INVENTORY_SLOTS

GunsHeld(p) == Cardinality({k \in DOMAIN inventory[p] : inventory[p][k] = "gun"})

\* C39 as the claim states it: in every state the inventory of a session
\* holds at most one starting gun, whatever grants the join, the match starts
\* and the respawns have made.
C39_OneStartingGun == \A p \in Players : GunsHeld(p) <= 1

\* -------------------------------------------------------- fall slice
\* The match cycle without leaves and kills by players, with avatars that
\* fall below y = -100, the out-of-world ticker of every spawned session and
\* the respawn, which puts the avatar into the spawn region.
FallCommit(s, pos) ==
  \E v \in {s} :
    /\ SessionCommit(v)
    /\ position' = pos
    /\ UNCHANGED <<gun, clock, projectile, blocks, departed, gameTimerDue>>

\* The avatar of a live session whose join has completed falls out of the world.
Fall(p) ==
  /\ p \in connected /\ joinPc[p] = "idle"
  /\ ~dead[p] /\ position[p] # "below"
  /\ FallCommit(Cur, [position EXCEPT ![p] = "below"])

\* The 3 s timeout of _outOfWorldTicker on a spawned entity.
OutOfWorldCheck(p) ==
  /\ p \in connected /\ joinPc[p] # "awaitUI"
  /\ Commit(IF position[p] = "below" /\ ~dead[p]
              THEN TakeDamage(Cur, p, MAX_HEALTH + MAX_SHIELD, NoPlayer)
              ELSE Cur)

\* The 5 s timeout of checkDeath: respawn with
\* setPosition(GameManager.instance.getRandomSpawnPosition()).
RespawnFire(p) ==
  /\ respawnTimers[p] > 0
  /\ FallCommit(Respawn([Cur EXCEPT !.respawnTimers[p] = @ - 1], p),
                IF p \in connected THEN [position EXCEPT ![p] = "spawn"] ELSE position)

NextFall ==
  \/ \E p \in Players : JoinedWorld(p)
  \/ \E p \in Players : UILoaded(p)
  \/ \E p \in Players : DataLoaded(p)
  \/ PollTick
  \/ RestartTimerFire
  \/ CountdownTick
  \/ GameTimerFire
  \/ \E p \in Players : Fall(p)
  \/ \E p \in Players : OutOfWorldCheck(p)
  \/ \E p \in Players : RespawnFire(p)

\* The event loop fires every timeout and interval that stays pending: those
\* of the manager, the out-of-world ticker and the respawn of every session.
FairFall ==
  /\ Init /\ [][NextFall]_vars
  /\ WF_vars(GameTimerFire) /\ WF_vars(RestartTimerFire)
  /\ WF_vars(PollTick) /\ WF_vars(CountdownTick)
  /\ \A p \in Players : WF_vars(OutOfWorldCheck(p)) /\ WF_vars(RespawnFire(p))

\* C40 as the claim states it: a connected, live session whose avatar is
\* below y = -100 is eventually dead, in whatever phase the manager is, and a
\* dead session is eventually alive again in the spawn region.
C40_FallenIsRespawned ==
  \A p \in Players :
    /\ (p \in connected /\ ~dead[p] /\ position[p] = "below") ~> dead[p]
    /\ dead[p] ~> (~dead[p] /\ position[p] = "spawn")

====
